---------------------------- MODULE Spec2Model ----------------------------
(* varfish-server-worker, `seqvars query`: the gene-level recessive          *)
(* evaluator passes_for_gene and the three-pass pipeline run_query           *)
(* (src/seqvars/query/mod.rs).                                               *)
EXTENDS Integers, Sequences, FiniteSets, TLC

VARIABLES
    query,              \* CaseQuery: [recessive_mode, sample_genotypes]
    seqvars,            \* passes_for_gene: the group handed to the function
    next_var,           \* passes_for_gene: number of variants the for loop has consumed
    seen_het_parents,   \* passes_for_gene: BTreeSet of parents seen het.
    seen_ref_parents,   \* passes_for_gene: BTreeSet of parents seen hom. ref.
    seen_index_het,     \* passes_for_gene: usize counter
    ret,                \* passes_for_gene: "none" while running, then the returned value
    pc,                 \* run_query (and frequency::passes): the block the call is in
    stats,              \* run_query: QueryStats [count_total, count_passed]
    unsorted,           \* run_query: lines of unsorted.jsonl (ByHgncId)
    sorted_iter,        \* run_query: what the sorted iterator of pass 2 still yields
    by_hgnc_filtered,   \* run_query: lines of by_hgnc_filtered.jsonl (ByCoordinate)
    by_coord,           \* run_query: lines of by_coord.jsonl (VariantRecord)
    next_line,          \* run_query: lines of by_coord.jsonl the emission has consumed
    csv_buf,            \* run_query: rows held in the buffer of csv_writer
    out_file,           \* the file at args.path_output: Absent, or its rows
    rng_draws,          \* number of rng.fill_bytes calls so far
    result,             \* run_query: "running", "ok", "err" (Err returned) or "panic"
    spill,              \* run_query: the writer and the reader of every spill file
    in_memory,          \* run_query: records held by the sorter and by a collected group
    freq_seqvar,        \* frequency::passes: the variant handed to the function
    freq_pass,          \* frequency::passes: "none" while running, then the result
    rng_seed,           \* run: args.rng_seed, an Option<u64>
    rng,                \* run: the seed the StdRng was built from (0: not built)
    path_query_json,    \* run: what the file at args.path_query_json decodes to
    decodes             \* run: the formats in which the query file was decoded so far

gene_vars == <<seqvars, next_var, seen_het_parents, seen_ref_parents, seen_index_het, ret>>

run_vars == <<pc, stats, unsorted, sorted_iter, by_hgnc_filtered, by_coord, next_line,
              csv_buf, out_file, rng_draws, result, spill, in_memory>>

freq_vars == <<freq_seqvar, freq_pass>>

load_vars == <<rng_seed, rng, path_query_json, decodes>>

vars == <<query, gene_vars, run_vars, freq_vars, load_vars>>

-----------------------------------------------------------------------------
(* Bounds of the model.                                                      *)

\* Largest gene group handed to passes_for_gene.
MaxGroup == 2

\* Largest number of records of the input file.
MaxRecords == 3

-----------------------------------------------------------------------------
(* Data.                                                                     *)

RecessiveModes == {"Disabled", "Homozygous", "CompoundHeterozygous", "Any"}

\* CallInfo.genotype of a sample that has call info but no GT (Option::None).
NoGT == "<none>"

\* Genotype strings the input records are drawn from.
GtStrings == {"0/0", "0/1", "1/1", "./."}

\* common::Genotype as parsed from a genotype string.
Parse(s) ==
    CASE s \in {"0/0", "0|0"} -> "HomRef"
      [] s \in {"0/1", "1/0", "0|1", "1|0"} -> "Het"
      [] s \in {"1/1", "1|1"} -> "HomAlt"
      [] s \in {"./.", ".|.", "."} -> "Missing"
      [] OTHER -> "ParseError"

Sample(name, choice) == [sample |-> name, genotype |-> choice]

\* query.genotype.sample_genotypes, an IndexMap in insertion order.
SampleGenotypeConfigs ==
    { <<Sample("index", "RecessiveIndex"), Sample("mother", "Any")>>,
      <<Sample("index", "RecessiveIndex"), Sample("father", "RecessiveFather")>>,
      <<Sample("index", "RecessiveIndex"), Sample("father", "RecessiveFather"),
        Sample("mother", "RecessiveMother")>> }

Queries == [recessive_mode : RecessiveModes, sample_genotypes : SampleGenotypeConfigs]

\* A recessive query in which no sample has the index role.
NoIndexQuery ==
    [recessive_mode |-> "CompoundHeterozygous",
     sample_genotypes |-> <<Sample("father", "RecessiveFather"),
                            Sample("mother", "RecessiveMother")>>]

\* The queries of the runs: a full trio, and the query without index.
PipelineQueries == {q \in Queries : Len(q.sample_genotypes) = 3} \cup {NoIndexQuery}

SampleNames(q) == {q.sample_genotypes[j].sample : j \in DOMAIN q.sample_genotypes}

\* The genotype strings drawn for a sample: all of them, but for the parents
\* of a full trio, where the father is never missing and the mother never
\* hom. alt.
SampleGtStrings(q, name) ==
    IF Len(q.sample_genotypes) = 3 /\ name = "father" THEN GtStrings \ {"./."}
    ELSE IF Len(q.sample_genotypes) = 3 /\ name = "mother" THEN GtStrings \ {"1/1"}
    ELSE GtStrings

\* The call_infos of the records of a file whose samples are those of the query.
CallInfos(q) ==
    {ci \in [SampleNames(q) -> GtStrings] :
        \A name \in SampleNames(q) : ci[name] \in SampleGtStrings(q, name)}

-----------------------------------------------------------------------------
(* passes_for_gene.                                                          *)

RECURSIVE ExtractFamilyFrom(_, _)
ExtractFamilyFrom(sample_genotypes, acc) ==
    IF sample_genotypes = <<>> THEN acc
    ELSE LET s == Head(sample_genotypes)
             nxt == CASE s.genotype = "RecessiveIndex" ->
                           [acc EXCEPT !.index = s.sample]
                      [] s.genotype \in {"RecessiveFather", "RecessiveMother"} ->
                           [acc EXCEPT !.parents = Append(@, s.sample)]
                      [] OTHER -> acc
         IN  ExtractFamilyFrom(Tail(sample_genotypes), nxt)

\* (index, parents) of the query; the index is the empty string when no sample
\* has the role.
ExtractFamily(q) == ExtractFamilyFrom(q.sample_genotypes, [index |-> "", parents |-> <<>>])

\* call_infos.get(name).expect(..).genotype.as_ref().expect(..).parse()
GenotypeOf(call_infos, name) ==
    IF name \notin DOMAIN call_infos THEN "Panic"
    ELSE IF call_infos[name] = NoGT THEN "Panic"
    ELSE Parse(call_infos[name])

\* The parents' genotypes, collected in order; the first parent that has no GT
\* (a panic) or an unparseable one (an Err) ends the collection.
RECURSIVE ParentGts(_, _)
ParentGts(parents, call_infos) ==
    IF parents = <<>> THEN [st |-> "ok", gts |-> <<>>]
    ELSE LET g == GenotypeOf(call_infos, Head(parents))
         IN  IF g = "Panic" THEN [st |-> "panic", gts |-> <<>>]
             ELSE IF g = "ParseError" THEN [st |-> "error", gts |-> <<>>]
             ELSE LET rest == ParentGts(Tail(parents), call_infos)
                  IN  IF rest.st # "ok" THEN rest
                      ELSE [st |-> "ok", gts |-> <<g>> \o rest.gts]

\* parents.iter().zip(parent_gts.iter()).filter(gt == g).map(name)
RECURSIVE ParentsWith(_, _, _)
ParentsWith(parents, gts, g) ==
    IF parents = <<>> THEN <<>>
    ELSE (IF Head(gts) = g THEN <<Head(parents)>> ELSE <<>>)
             \o ParentsWith(Tail(parents), Tail(gts), g)

\* The state of the loop: the two sets, the counter and the value returned
\* ("none" while the loop goes on).
LoopState(het, ref, cnt, r) == [het |-> het, ref |-> ref, cnt |-> cnt, ret |-> r]

\* HomAltCase with one het. parent taken as enough.
HomAltCase_AnyHetParent(mode, st, het_parents, parent_gts) ==
    IF mode \in {"Homozygous", "Any"}
    THEN IF Len(het_parents) = 0 /\ Len(parent_gts) # 0 THEN st
         ELSE [st EXCEPT !.ret = "true"]
    ELSE st

\* Case 1 of the loop body: index hom. alt.
HomAltCase(mode, st, het_parents, parent_gts) ==
    IF mode \in {"Homozygous", "Any"}
    THEN IF Len(het_parents) # Len(parent_gts) THEN st
         ELSE [st EXCEPT !.ret = "true"]
    ELSE st

\* HetCase with the two-parent test reduced to "one parent is het.".
HetCase_OneHetSuffices(mode, st, het_parents, ref_parents, parent_gts) ==
    IF mode \in {"CompoundHeterozygous", "Any"}
    THEN CASE Len(parent_gts) = 0 ->
                [st EXCEPT !.cnt = @ + 1]
           [] Len(parent_gts) = 1 ->
                IF Len(het_parents) = 1
                THEN [st EXCEPT !.het = @ \cup {Head(het_parents)}, !.cnt = @ + 1]
                ELSE IF Len(ref_parents) = 1
                THEN [st EXCEPT !.ref = @ \cup {Head(ref_parents)}, !.cnt = @ + 1]
                ELSE st
           [] Len(parent_gts) = 2 ->
                IF Len(het_parents) = 1
                THEN [st EXCEPT !.het = @ \cup {Head(het_parents)},
                                !.ref = @ \cup (IF ref_parents = <<>> THEN {}
                                                ELSE {Head(ref_parents)}),
                                !.cnt = @ + 1]
                ELSE st
           [] OTHER -> [st EXCEPT !.ret = "panic"]
    ELSE st

\* HetCase without the test of the recessive mode.
HetCase_IgnoresMode(mode, st, het_parents, ref_parents, parent_gts) ==
    CASE Len(parent_gts) = 0 ->
           [st EXCEPT !.cnt = @ + 1]
      [] Len(parent_gts) = 1 ->
           IF Len(het_parents) = 1
           THEN [st EXCEPT !.het = @ \cup {Head(het_parents)}, !.cnt = @ + 1]
           ELSE IF Len(ref_parents) = 1
           THEN [st EXCEPT !.ref = @ \cup {Head(ref_parents)}, !.cnt = @ + 1]
           ELSE st
      [] Len(parent_gts) = 2 ->
           IF Len(het_parents) = 1 /\ Len(ref_parents) = 1
           THEN [st EXCEPT !.het = @ \cup {Head(het_parents)},
                           !.ref = @ \cup {Head(ref_parents)},
                           !.cnt = @ + 1]
           ELSE st
      [] OTHER -> [st EXCEPT !.ret = "panic"]

\* Case 2 of the loop body: index het.
HetCase(mode, st, het_parents, ref_parents, parent_gts) ==
    IF mode \in {"CompoundHeterozygous", "Any"}
    THEN CASE Len(parent_gts) = 0 ->
                [st EXCEPT !.cnt = @ + 1]
           [] Len(parent_gts) = 1 ->
                IF Len(het_parents) = 1
                THEN [st EXCEPT !.het = @ \cup {Head(het_parents)}, !.cnt = @ + 1]
                ELSE IF Len(ref_parents) = 1
                THEN [st EXCEPT !.ref = @ \cup {Head(ref_parents)}, !.cnt = @ + 1]
                ELSE st
           [] Len(parent_gts) = 2 ->
                IF Len(het_parents) = 1 /\ Len(ref_parents) = 1
                THEN [st EXCEPT !.het = @ \cup {Head(het_parents)},
                                !.ref = @ \cup {Head(ref_parents)},
                                !.cnt = @ + 1]
                ELSE st
           [] OTHER -> [st EXCEPT !.ret = "panic"]
    ELSE st

\* A hom. alt. parent fails the whole group instead of the variant.
HomAltParentSkip_FailsGroup(st) == [st EXCEPT !.ret = "false"]

\* The skip of a variant with a hom. alt. parent.
HomAltParentSkip(st) == st

\* StepVariant with an index that is hom. alt. taken through the het. case
\* when the mode is compound heterozygous.
StepVariant_CountsHomAlt(mode, fam, st, seqvar) ==
    LET index_gt == GenotypeOf(seqvar.call_infos, fam.index)
        pg == ParentGts(fam.parents, seqvar.call_infos)
        homalt_parents == ParentsWith(fam.parents, pg.gts, "HomAlt")
        het_parents == ParentsWith(fam.parents, pg.gts, "Het")
        ref_parents == ParentsWith(fam.parents, pg.gts, "HomRef")
    IN  IF index_gt = "Panic" THEN [st EXCEPT !.ret = "panic"]
        ELSE IF index_gt = "ParseError" THEN [st EXCEPT !.ret = "error"]
        ELSE IF pg.st # "ok" THEN [st EXCEPT !.ret = pg.st]
        ELSE IF homalt_parents # <<>> THEN HomAltParentSkip(st)
        ELSE IF index_gt = "HomAlt" /\ mode \in {"Homozygous", "Any"}
             THEN HomAltCase(mode, st, het_parents, pg.gts)
        ELSE IF index_gt \in {"Het", "HomAlt"}
             THEN HetCase(mode, st, het_parents, ref_parents, pg.gts)
        ELSE st

\* One loop iteration that fails the group on a variant whose index genotype is
\* neither hom. alt. nor het. (`return Ok(false)` in place of falling through).
StepVariant_OtherIndexFails(mode, fam, st, seqvar) ==
    LET index_gt == GenotypeOf(seqvar.call_infos, fam.index)
        pg == ParentGts(fam.parents, seqvar.call_infos)
        homalt_parents == ParentsWith(fam.parents, pg.gts, "HomAlt")
        het_parents == ParentsWith(fam.parents, pg.gts, "Het")
        ref_parents == ParentsWith(fam.parents, pg.gts, "HomRef")
    IN  IF index_gt = "Panic" THEN [st EXCEPT !.ret = "panic"]
        ELSE IF index_gt = "ParseError" THEN [st EXCEPT !.ret = "error"]
        ELSE IF pg.st # "ok" THEN [st EXCEPT !.ret = pg.st]
        ELSE IF homalt_parents # <<>> THEN HomAltParentSkip(st)
        ELSE IF index_gt = "HomAlt" THEN HomAltCase(mode, st, het_parents, pg.gts)
        ELSE IF index_gt = "Het" THEN HetCase(mode, st, het_parents, ref_parents, pg.gts)
        ELSE [st EXCEPT !.ret = "false"]

\* One iteration of `for seqvar in seqvars`.
StepVariant(mode, fam, st, seqvar) ==
    LET index_gt == GenotypeOf(seqvar.call_infos, fam.index)
        pg == ParentGts(fam.parents, seqvar.call_infos)
        homalt_parents == ParentsWith(fam.parents, pg.gts, "HomAlt")
        het_parents == ParentsWith(fam.parents, pg.gts, "Het")
        ref_parents == ParentsWith(fam.parents, pg.gts, "HomRef")
    IN  IF index_gt = "Panic" THEN [st EXCEPT !.ret = "panic"]
        ELSE IF index_gt = "ParseError" THEN [st EXCEPT !.ret = "error"]
        ELSE IF pg.st # "ok" THEN [st EXCEPT !.ret = pg.st]
        ELSE IF homalt_parents # <<>> THEN HomAltParentSkip(st)
        ELSE IF index_gt = "HomAlt" THEN HomAltCase(mode, st, het_parents, pg.gts)
        ELSE IF index_gt = "Het" THEN HetCase(mode, st, het_parents, ref_parents, pg.gts)
        ELSE st

\* FinalDecision with one counted variant taken as enough.
FinalDecision_OneVariant(mode, fam, st) ==
    IF mode \in {"CompoundHeterozygous", "Any"}
    THEN st.cnt >= 1
           /\ Cardinality(st.het) = Len(fam.parents)
           /\ Cardinality(st.ref) = Len(fam.parents)
    ELSE FALSE

\* The value returned after the loop.
FinalDecision(mode, fam, st) ==
    IF mode \in {"CompoundHeterozygous", "Any"}
    THEN st.cnt >= 2
           /\ Cardinality(st.het) = Len(fam.parents)
           /\ Cardinality(st.ref) = Len(fam.parents)
    ELSE FALSE

BoolStr(b) == IF b THEN "true" ELSE "false"

\* The loop over the group: it ends at the first iteration that returns.
RECURSIVE LoopFold(_, _, _, _)
LoopFold(mode, fam, st, vs) ==
    IF st.ret # "none" \/ vs = <<>> THEN st
    ELSE LoopFold(mode, fam, StepVariant(mode, fam, st, Head(vs)), Tail(vs))

RunLoop(mode, fam, st, vs) ==
    LET fin == LoopFold(mode, fam, st, vs)
    IN  IF fin.ret # "none" THEN fin.ret ELSE BoolStr(FinalDecision(mode, fam, fin))

\* passes_for_gene without the short-circuit of the disabled mode.
passes_for_gene_NoShortCircuit(q, vs) ==
    RunLoop(q.recessive_mode, ExtractFamily(q), LoopState({}, {}, 0, "none"), vs)

\* passes_for_gene(query, seqvars): "true", "false", "error" (Err) or "panic".
passes_for_gene(q, vs) ==
    IF q.recessive_mode = "Disabled" THEN "true"
    ELSE RunLoop(q.recessive_mode, ExtractFamily(q), LoopState({}, {}, 0, "none"), vs)

-----------------------------------------------------------------------------
(* run_query.                                                                *)

\* Option<T>: None, or Some(v).
None == [some |-> FALSE, v |-> 0]

Some(v) == [some |-> TRUE, v |-> v]

\* The file at path_output: absent, or created with the rows flushed to it.
NoFile == [exists |-> FALSE, rows |-> <<>>]

\* mehari's CHROM_TO_CHROM_NO, on the chromosomes of the model's records.
ChromToChromNo == ("2" :> 2) @@ ("10" :> 10)

\* vcf_variant of the input records: chrom, pos and the length of ref_allele.
Locus(c, p, l) == [chrom |-> c, pos |-> p, ref_len |-> l]

\* The third one starts on the first base of the second 128 kb window, so its
\* zero-based span begins in the first window.
Loci ==
    {Locus("2", 5, 1), Locus("10", 3, 2), Locus("10", 131072, 2), Locus("chrUn", 1, 1)}

Trio(i, f, m) == ("index" :> i) @@ ("father" :> f) @@ ("mother" :> m)

\* (gene of the first annotation field, call_infos) of the input records.
GeneCalls ==
    { <<"HGNC:1", Trio("0/1", "0/1", "0/0")>>,
      <<"HGNC:1", Trio("0/1", "0/0", "0/1")>>,
      <<"HGNC:2", Trio("1/1", "0/1", "0/1")>>,
      <<"HGNC:2", Trio("0/x", "0/0", "0/0")>> }

\* A VariantRecord; line is its position in the input file.
VariantRecord(line, gc, locus) ==
    [line |-> line, hgnc_id |-> gc[1], call_infos |-> gc[2], vcf_variant |-> locus]

\* sorting::ByHgncId::from(record)
ByHgncIdFrom(seqvar) == [hgnc_id |-> seqvar.hgnc_id, seqvar |-> seqvar]

\* The chromosome number the coordinate order uses (0: no canonical number).
CoordChromNo(chrom) ==
    IF chrom \in DOMAIN ChromToChromNo THEN ChromToChromNo[chrom] ELSE 0

\* sorting::ByCoordinate::from(record)
ByCoordinateFrom(seqvar) ==
    [chrom_no |-> CoordChromNo(seqvar.vcf_variant.chrom), pos |-> seqvar.vcf_variant.pos,
     seqvar |-> seqvar]

\* Ord of ByHgncId: by the gene identifier. Identifiers are compared through
\* their rank in HgncOrder.
HgncOrder == <<"HGNC:1", "HGNC:2">>

HgncRank(id) == CHOOSE k \in DOMAIN HgncOrder : HgncOrder[k] = id

ByHgncIdLeq(a, b) == HgncRank(a.hgnc_id) <= HgncRank(b.hgnc_id)

\* Ord of ByCoordinate: (chromosome number, position).
ByCoordinateLeq(a, b) ==
    \/ a.chrom_no < b.chrom_no
    \/ a.chrom_no = b.chrom_no /\ a.pos <= b.pos

\* ExternalSorter::sort by hgnc_id: a stable sort (insertion after the last
\* element that is not greater).
RECURSIVE InsertByHgncId(_, _)
InsertByHgncId(sorted, x) ==
    IF sorted = <<>> THEN <<x>>
    ELSE IF ByHgncIdLeq(Head(sorted), x)
         THEN <<Head(sorted)>> \o InsertByHgncId(Tail(sorted), x)
         ELSE <<x>> \o sorted

RECURSIVE SortByHgncIdFrom(_, _)
SortByHgncIdFrom(sorted, rest) ==
    IF rest = <<>> THEN sorted
    ELSE SortByHgncIdFrom(InsertByHgncId(sorted, Head(rest)), Tail(rest))

SortByHgncId(lines) == SortByHgncIdFrom(<<>>, lines)

RECURSIVE InsertByCoordinate(_, _)
InsertByCoordinate(sorted, x) ==
    IF sorted = <<>> THEN <<x>>
    ELSE IF ByCoordinateLeq(Head(sorted), x)
         THEN <<Head(sorted)>> \o InsertByCoordinate(Tail(sorted), x)
         ELSE <<x>> \o sorted

RECURSIVE SortByCoordinateFrom(_, _)
SortByCoordinateFrom(sorted, rest) ==
    IF rest = <<>> THEN sorted
    ELSE SortByCoordinateFrom(InsertByCoordinate(sorted, Head(rest)), Tail(rest))

\* ExternalSorter::sort by coordinate.
SortByCoordinate(lines) == SortByCoordinateFrom(<<>>, lines)

\* chunk_by that ends every group after its first record.
ChunkLen_SingleRecord(it) == IF it = <<>> THEN 0 ELSE 1

\* chunk_by: the length of the first run of equal hgnc_id.
RECURSIVE ChunkLen(_)
ChunkLen(it) ==
    IF Len(it) <= 1 THEN Len(it)
    ELSE IF it[2].hgnc_id = it[1].hgnc_id THEN 1 + ChunkLen(Tail(it))
    ELSE 1

\* group.map(|ByHgncId { seqvar, .. }| seqvar).collect()
GroupSeqvars(chunk) == [j \in DOMAIN chunk |-> chunk[j].seqvar]

\* Only one representative of the group is written.
GroupLines_FirstOnly(group) == <<ByCoordinateFrom(group[1])>>

\* What for_each writes of a group that passed: every member, by coordinate.
GroupLines(group) == [j \in DOMAIN group |-> ByCoordinateFrom(group[j])]

\* mehari's bin_from_range(begin, end) on a zero-based half-open span: the UCSC
\* binning scheme, five levels of bins from 128 kb up, each 8 times the one
\* before; the first level at which both ends fall in one bin gives the bin.
BinOffsets == <<585, 73, 9, 1, 0>>

RECURSIVE BinAtLevel(_, _, _)
BinAtLevel(begin_bin, end_bin, level) ==
    IF level > Len(BinOffsets) THEN -1
    ELSE IF begin_bin = end_bin THEN BinOffsets[level] + begin_bin
    ELSE BinAtLevel(begin_bin \div 8, end_bin \div 8, level + 1)

BinFromRange(begin, end) == BinAtLevel(begin \div 131072, (end - 1) \div 131072, 1)

\* The generator after rng.fill_bytes(uuid_buf), and one that is advanced twice
\* for a row.
FillBytes_Twice(draws) == draws + 2

FillBytes(draws) == draws + 1

\* The bytes of the draw-th fill_bytes of a StdRng built from the seed: StdRng
\* is a deterministic generator, so they are a function of the two.
UuidBytes(seed, draw) == <<seed, draw>>

\* The output row with the bin of the one-based start.
OutputRow_OneBasedBin(seqvar, uuid) ==
    LET start == seqvar.vcf_variant.pos
        end == start + seqvar.vcf_variant.ref_len - 1
    IN  [kind |-> "row", line |-> seqvar.line, sodar_uuid |-> uuid,
         chromosome |-> seqvar.vcf_variant.chrom,
         chromosome_no |-> ChromToChromNo[seqvar.vcf_variant.chrom],
         start |-> start, end |-> end, bin |-> BinFromRange(start, end)]

\* The output row of a record; the header row goes before the first one.
OutputRow(seqvar, uuid) ==
    LET start == seqvar.vcf_variant.pos
        end == start + seqvar.vcf_variant.ref_len - 1
    IN  [kind |-> "row", line |-> seqvar.line, sodar_uuid |-> uuid,
         chromosome |-> seqvar.vcf_variant.chrom,
         chromosome_no |-> ChromToChromNo[seqvar.vcf_variant.chrom],
         start |-> start, end |-> end, bin |-> BinFromRange(start - 1, end)]

HeaderRow ==
    [kind |-> "header", line |-> 0, sodar_uuid |-> <<0, 0>>, chromosome |-> "chromosome",
     chromosome_no |-> 0, start |-> 0, end |-> 0, bin |-> 0]

\* csv_writer goes out of scope: what it buffered is flushed to the file.
DropCsvWriter(file, buf) == [file EXCEPT !.rows = @ \o buf]

\* let elem_count = 10_000: the records the buffer of an ExternalSorter holds.
elem_count == 10000

Min(a, b) == IF a <= b THEN a ELSE b

\* The spill files of the temporary directory.
SpillFiles == {"unsorted", "by_hgnc_filtered", "by_coord"}

\* A spill file nobody has opened: writer is "none", "open" or "closed",
\* buffered the number of lines its BufWriter holds and has not written to the
\* file, reader whether a BufReader is open on it.
Unopened == [writer |-> "none", buffered |-> 0, reader |-> FALSE]

\* File::create(..).map(BufWriter::new)
CreateWriter(f) == [f EXCEPT !.writer = "open"]

\* writeln!(writer, ..) of n lines: they are held by the BufWriter, whose
\* capacity the records of the model do not reach.
WriteLines(f, n) == [f EXCEPT !.buffered = @ + n]

\* The writer is kept open with what it buffered.
FlushAndClose_StillOpen(f) == f

\* The end of a writing block: the BufWriter is flushed (into_inner and
\* sync_all, or flush) and the file is closed when the block is left.
FlushAndClose(f) == [f EXCEPT !.writer = "closed", !.buffered = 0]

\* File::open(..).map(BufReader::new)
OpenReader(f) == [f EXCEPT !.reader = TRUE]

\* The BufReader is dropped.
CloseReader(f) == [f EXCEPT !.reader = FALSE]

\* The lines a reader finds in the file: those written and not still buffered.
FileLines(lines, f) == SubSeq(lines, 1, Len(lines) - f.buffered)

\* The run is unwinding or returning early: every open writer is dropped, which
\* flushes and closes it, and every reader is closed.
DropAll(sp) ==
    [name \in SpillFiles |->
        CloseReader(IF sp[name].writer = "open" THEN FlushAndClose(sp[name]) ELSE sp[name])]

NothingInMemory == [sorter |-> 0, group |-> 0]

\* The variant of frequency::passes when the function is not running.
NoSeqvar == [chrom |-> "", gnomad_exomes |-> <<>>, gnomad_genomes |-> <<>>, helixmtdb |-> <<>>]

FreqIdle == freq_seqvar = NoSeqvar /\ freq_pass = "none"

\* The file at args.path_query_json: whether it can be opened, the query
\* serde_json decodes from it as CaseQuery (the current format), the query it
\* decodes from it as pbs::varfish::v1::seqvars::query::CaseQuery (the older
\* format), and whether CaseQuery::try_from converts the latter.
QueryFile(readable, current, legacy, convertible) ==
    [readable |-> readable, current |-> current, legacy |-> legacy,
     convertible |-> convertible]

\* The file of a query written in the current format only.
CurrentFormatFile(q) == QueryFile(TRUE, Some(q), None, FALSE)

\* No query is loaded.
NoQuery == [recessive_mode |-> "none", sample_genotypes |-> <<>>]

\* The query loading that tries the older format first.
QueryFromFile_OlderFormatFirst(file) ==
    IF ~file.readable THEN [decodes |-> <<>>, query |-> None]
    ELSE IF file.legacy.some /\ file.convertible
         THEN [decodes |-> <<"pbs">>, query |-> file.legacy]
    ELSE [decodes |-> <<"pbs", "CaseQuery">>, query |-> file.current]

\* The query loading of run: the file is decoded as CaseQuery; only when that
\* fails it is decoded in the older format and converted. query is None when
\* run returns an error.
QueryFromFile(file) ==
    IF ~file.readable THEN [decodes |-> <<>>, query |-> None]
    ELSE IF file.current.some THEN [decodes |-> <<"CaseQuery">>, query |-> file.current]
    ELSE [decodes |-> <<"CaseQuery", "pbs">>,
          query |-> IF file.legacy.some /\ file.convertible THEN file.legacy ELSE None]

\* Seeds the local entropy source can give.
EntropySeeds == {1, 2}

\* The generator seeded from entropy whatever args.rng_seed is.
StdRngSeeds_FromEntropy(seed) == EntropySeeds

\* The seeds the generator of run can be built from: args.rng_seed if given,
\* else one from the local entropy source.
StdRngSeeds(seed) == IF seed.some THEN {seed.v} ELSE EntropySeeds

\* run has built the generator from the seed 1 and loaded the query from a file
\* in the current format.
Loaded(q) ==
    /\ rng_seed = Some(1)
    /\ rng \in StdRngSeeds(rng_seed)
    /\ path_query_json = CurrentFormatFile(q)
    /\ decodes = QueryFromFile(path_query_json).decodes

\* run is not running.
LoadIdle ==
    /\ rng_seed = None
    /\ rng = 0
    /\ path_query_json = QueryFile(FALSE, None, None, FALSE)
    /\ decodes = <<>>

InitRun ==
    /\ FreqIdle
    /\ query \in PipelineQueries
    /\ Loaded(query)
    /\ seqvars = <<>>
    /\ next_var = 0
    /\ seen_het_parents = {}
    /\ seen_ref_parents = {}
    /\ seen_index_het = 0
    /\ ret = "none"
    /\ pc = "pass1"
    /\ stats = [count_total |-> 0, count_passed |-> 0]
    /\ unsorted = <<>>
    /\ sorted_iter = <<>>
    /\ by_hgnc_filtered = <<>>
    /\ by_coord = <<>>
    /\ next_line = 0
    /\ csv_buf = <<>>
    /\ out_file = NoFile
    /\ rng_draws = 0
    /\ result = "running"
    /\ spill = [name \in SpillFiles |->
                   IF name = "unsorted" THEN CreateWriter(Unopened) ELSE Unopened]
    /\ in_memory = NothingInMemory

\* The counters that count every record read as passed.
CountRecord_EveryRecordPassed(st, passed) ==
    [count_total |-> st.count_total + 1, count_passed |-> st.count_passed + 1]

\* stats.count_total += 1 for the record read and, when the interpreter passes
\* it, stats.count_passed += 1.
CountRecord(st, passed) ==
    [count_total |-> st.count_total + 1,
     count_passed |-> IF passed THEN st.count_passed + 1 ELSE st.count_passed]

\* Pass 1, one record read that the interpreter passes: counted and written to
\* the unsorted file.
Pass1Passed ==
    /\ pc = "pass1"
    /\ stats.count_total < MaxRecords
    /\ \E gc \in GeneCalls, locus \in Loci :
         LET record_seqvar == VariantRecord(stats.count_total + 1, gc, locus)
         IN  /\ stats' = CountRecord(stats, TRUE)
             /\ unsorted' = Append(unsorted, ByHgncIdFrom(record_seqvar))
    /\ spill' = [spill EXCEPT !["unsorted"] = WriteLines(@, 1)]
    /\ UNCHANGED <<query, gene_vars, freq_vars, load_vars, pc, sorted_iter,
                   by_hgnc_filtered, by_coord, next_line, csv_buf, out_file, rng_draws,
                   result, in_memory>>

\* Pass 1, one record read that the interpreter rejects.
Pass1Rejected ==
    /\ pc = "pass1"
    /\ stats.count_total < MaxRecords
    /\ stats' = CountRecord(stats, FALSE)
    /\ UNCHANGED <<query, gene_vars, freq_vars, load_vars, pc, unsorted, sorted_iter,
                   by_hgnc_filtered, by_coord, next_line, csv_buf, out_file, rng_draws,
                   result, spill, in_memory>>

\* Pass 1, a record that cannot be parsed or on which the interpreter fails.
Pass1Error ==
    /\ pc = "pass1"
    /\ stats.count_total < MaxRecords
    /\ stats' = CountRecord(stats, FALSE)
    /\ pc' = "failed"
    /\ result' = "err"
    /\ spill' = DropAll(spill)
    /\ UNCHANGED <<query, gene_vars, freq_vars, load_vars, unsorted, sorted_iter,
                   by_hgnc_filtered, by_coord, next_line, csv_buf, out_file, rng_draws,
                   in_memory>>

\* Pass 1, end of the input: the unsorted file is synced and closed.
Pass1Eof ==
    /\ pc = "pass1"
    /\ pc' = "pass2"
    /\ spill' = [spill EXCEPT !["unsorted"] = FlushAndClose(@)]
    /\ UNCHANGED <<query, gene_vars, freq_vars, load_vars, stats, unsorted, sorted_iter,
                   by_hgnc_filtered, by_coord, next_line, csv_buf, out_file, rng_draws,
                   result, in_memory>>

\* Pass 2: the unsorted file is opened for reading, by_hgnc_filtered is created
\* and the lines of the unsorted file are sorted by HGNC ID.
Pass2Sort ==
    /\ pc = "pass2"
    /\ LET lines == FileLines(unsorted, spill["unsorted"])
       IN  /\ sorted_iter' = SortByHgncId(lines)
           /\ in_memory' = [sorter |-> Min(Len(lines), elem_count), group |-> 0]
    /\ spill' = [spill EXCEPT !["unsorted"] = OpenReader(@),
                              !["by_hgnc_filtered"] = CreateWriter(@)]
    /\ pc' = "pass2_groups"
    /\ UNCHANGED <<query, gene_vars, freq_vars, load_vars, stats, unsorted,
                   by_hgnc_filtered, by_coord, next_line, csv_buf, out_file, rng_draws,
                   result>>

\* Pass 2: the next group of the sorted iterator is collected, filtered by
\* passes_for_gene(..).unwrap() and, when it passes, written out.
Pass2Group ==
    /\ pc = "pass2_groups"
    /\ sorted_iter # <<>>
    /\ LET n == ChunkLen(sorted_iter)
           group == GroupSeqvars(SubSeq(sorted_iter, 1, n))
           passes == passes_for_gene(query, group)
       IN  /\ sorted_iter' = SubSeq(sorted_iter, n + 1, Len(sorted_iter))
           /\ \/ /\ passes = "true"
                 /\ by_hgnc_filtered' = by_hgnc_filtered \o GroupLines(group)
                 /\ spill' = [spill EXCEPT !["by_hgnc_filtered"] =
                                               WriteLines(@, Len(GroupLines(group)))]
                 /\ in_memory' = [in_memory EXCEPT !.group = n]
                 /\ UNCHANGED <<pc, result>>
              \/ /\ passes = "false"
                 /\ in_memory' = [in_memory EXCEPT !.group = n]
                 /\ UNCHANGED <<by_hgnc_filtered, pc, result, spill>>
              \/ /\ passes \in {"error", "panic"}
                 /\ pc' = "failed"
                 /\ result' = "panic"
                 /\ spill' = DropAll(spill)
                 /\ in_memory' = NothingInMemory
                 /\ UNCHANGED by_hgnc_filtered
    /\ UNCHANGED <<query, gene_vars, freq_vars, load_vars, stats, unsorted, by_coord,
                   next_line, csv_buf, out_file, rng_draws>>

\* Pass 2: the iterator is exhausted, by_hgnc_filtered is flushed and closed.
Pass2Flush ==
    /\ pc = "pass2_groups"
    /\ sorted_iter = <<>>
    /\ pc' = "pass3"
    /\ spill' = [spill EXCEPT !["unsorted"] = CloseReader(@),
                              !["by_hgnc_filtered"] = FlushAndClose(@)]
    /\ in_memory' = NothingInMemory
    /\ UNCHANGED <<query, gene_vars, freq_vars, load_vars, stats, unsorted, sorted_iter,
                   by_hgnc_filtered, by_coord, next_line, csv_buf, out_file, rng_draws,
                   result>>

\* Pass 3 without the sort.
Pass3Lines_Unsorted(lines) == [j \in DOMAIN lines |-> lines[j].seqvar]

\* What pass 3 writes to by_coord: the surviving records sorted by coordinate.
Pass3Lines(lines) ==
    LET sorted == SortByCoordinate(lines)
    IN  [j \in DOMAIN sorted |-> sorted[j].seqvar]

\* Pass 3: by_hgnc_filtered is opened for reading, by_coord is created, and
\* the lines of by_hgnc_filtered are written to by_coord sorted by coordinate.
Pass3 ==
    /\ pc = "pass3"
    /\ LET lines == FileLines(by_hgnc_filtered, spill["by_hgnc_filtered"])
       IN  /\ by_coord' = Pass3Lines(lines)
           /\ in_memory' = [sorter |-> Min(Len(lines), elem_count), group |-> 0]
           /\ spill' = [spill EXCEPT !["by_hgnc_filtered"] = OpenReader(@),
                                     !["by_coord"] =
                                         WriteLines(CreateWriter(@), Len(Pass3Lines(lines)))]
    /\ pc' = "pass3_written"
    /\ UNCHANGED <<query, gene_vars, freq_vars, load_vars, stats, unsorted, sorted_iter,
                   by_hgnc_filtered, next_line, csv_buf, out_file, rng_draws, result>>

\* Pass 3: by_coord is flushed and closed.
Pass3Flush ==
    /\ pc = "pass3_written"
    /\ pc' = "create_output"
    /\ spill' = [spill EXCEPT !["by_hgnc_filtered"] = CloseReader(@),
                              !["by_coord"] = FlushAndClose(@)]
    /\ in_memory' = NothingInMemory
    /\ UNCHANGED <<query, gene_vars, freq_vars, load_vars, stats, unsorted, sorted_iter,
                   by_hgnc_filtered, by_coord, next_line, csv_buf, out_file, rng_draws,
                   result>>

\* The csv writer is built from path_output: the file is created (truncated);
\* then by_coord is opened for reading.
CreateOutput ==
    /\ pc = "create_output"
    /\ out_file' = [exists |-> TRUE, rows |-> <<>>]
    /\ spill' = [spill EXCEPT !["by_coord"] = OpenReader(@)]
    /\ pc' = "emit"
    /\ UNCHANGED <<query, gene_vars, freq_vars, load_vars, stats, unsorted, sorted_iter,
                   by_hgnc_filtered, by_coord, next_line, csv_buf, rng_draws, result,
                   in_memory>>

\* The output file cannot be created.
CreateOutputError ==
    /\ pc = "create_output"
    /\ pc' = "failed"
    /\ result' = "err"
    /\ UNCHANGED <<query, gene_vars, freq_vars, load_vars, stats, unsorted, sorted_iter,
                   by_hgnc_filtered, by_coord, next_line, csv_buf, out_file, rng_draws,
                   spill, in_memory>>

\* create_payload_and_write_record on the next line of by_coord.
EmitRecord ==
    /\ pc = "emit"
    /\ next_line < Len(FileLines(by_coord, spill["by_coord"]))
    /\ LET seqvar == FileLines(by_coord, spill["by_coord"])[next_line + 1]
       IN  \/ \* the row is serialized into the writer
              /\ seqvar.vcf_variant.chrom \in DOMAIN ChromToChromNo
              /\ csv_buf' = (IF next_line = 0 THEN <<HeaderRow>> ELSE <<>>)
                               \o csv_buf
                               \o <<OutputRow(seqvar, UuidBytes(rng, FillBytes(rng_draws)))>>
              /\ rng_draws' = FillBytes(rng_draws)
              /\ next_line' = next_line + 1
              /\ UNCHANGED <<pc, out_file, result, spill>>
           \/ \* expect("invalid chromosome") panics, after the uuid was drawn
              /\ seqvar.vcf_variant.chrom \notin DOMAIN ChromToChromNo
              /\ rng_draws' = FillBytes(rng_draws)
              /\ pc' = "failed"
              /\ result' = "panic"
              /\ out_file' = DropCsvWriter(out_file, csv_buf)
              /\ csv_buf' = <<>>
              /\ spill' = DropAll(spill)
              /\ UNCHANGED next_line
           \/ \* building the payload or binning fails, before the uuid is drawn,
              \* or writing the row fails, after it
              /\ pc' = "failed"
              /\ result' = "err"
              /\ out_file' = DropCsvWriter(out_file, csv_buf)
              /\ csv_buf' = <<>>
              /\ spill' = DropAll(spill)
              /\ \/ rng_draws' = rng_draws
                 \/ /\ seqvar.vcf_variant.chrom \in DOMAIN ChromToChromNo
                    /\ rng_draws' = FillBytes(rng_draws)
              /\ UNCHANGED next_line
    /\ UNCHANGED <<query, gene_vars, freq_vars, load_vars, stats, unsorted, sorted_iter,
                   by_hgnc_filtered, by_coord, in_memory>>

\* All lines are written: run_query returns Ok(stats).
Finish ==
    /\ pc = "emit"
    /\ next_line = Len(FileLines(by_coord, spill["by_coord"]))
    /\ out_file' = DropCsvWriter(out_file, csv_buf)
    /\ csv_buf' = <<>>
    /\ pc' = "done"
    /\ result' = "ok"
    /\ spill' = DropAll(spill)
    /\ UNCHANGED <<query, gene_vars, freq_vars, load_vars, stats, unsorted, sorted_iter,
                   by_hgnc_filtered, by_coord, next_line, rng_draws, in_memory>>

Next ==
    \/ Pass1Passed \/ Pass1Rejected \/ Pass1Error \/ Pass1Eof
    \/ Pass2Sort \/ Pass2Group \/ Pass2Flush
    \/ Pass3 \/ Pass3Flush
    \/ CreateOutput \/ CreateOutputError
    \/ EmitRecord \/ Finish

Spec == InitRun /\ [][Next]_vars

-----------------------------------------------------------------------------
(* run: the generator is built, the query is loaded, the databases are       *)
(* loaded, and run_query is called.                                          *)

\* The queries of the query files: one decoded from the current format, one
\* from the older format.
CurrentFormatQuery ==
    CHOOSE q \in PipelineQueries :
        q.recessive_mode = "CompoundHeterozygous" /\ Len(q.sample_genotypes) = 3

OlderFormatQuery ==
    CHOOSE q \in PipelineQueries :
        q.recessive_mode = "Homozygous" /\ Len(q.sample_genotypes) = 3

\* The query files: one that cannot be opened, and those that decode or not in
\* either format, the older format converting or not.
QueryFiles ==
    {QueryFile(FALSE, None, None, FALSE)}
        \cup { QueryFile(TRUE, current, None, FALSE) :
                  current \in {None, Some(CurrentFormatQuery)} }
        \cup { QueryFile(TRUE, current, Some(OlderFormatQuery), convertible) :
                  current \in {None, Some(CurrentFormatQuery)},
                  convertible \in BOOLEAN }

\* The values of args.rng_seed.
RngSeeds == {None, Some(1), Some(2)}

\* The state when run is called.
RunCalled ==
    /\ FreqIdle
    /\ query = NoQuery
    /\ seqvars = <<>>
    /\ next_var = 0
    /\ seen_het_parents = {}
    /\ seen_ref_parents = {}
    /\ seen_index_het = 0
    /\ ret = "none"
    /\ pc = "seed_rng"
    /\ stats = [count_total |-> 0, count_passed |-> 0]
    /\ unsorted = <<>>
    /\ sorted_iter = <<>>
    /\ by_hgnc_filtered = <<>>
    /\ by_coord = <<>>
    /\ next_line = 0
    /\ csv_buf = <<>>
    /\ out_file = NoFile
    /\ rng_draws = 0
    /\ result = "running"
    /\ spill = [name \in SpillFiles |-> Unopened]
    /\ in_memory = NothingInMemory
    /\ rng = 0
    /\ decodes = <<>>

\* run is called with any seed argument and a query file in the current format.
InitSeed ==
    /\ RunCalled
    /\ rng_seed \in RngSeeds
    /\ path_query_json = CurrentFormatFile(CurrentFormatQuery)

\* run is called with a seed and any query file.
InitQueryFile ==
    /\ RunCalled
    /\ rng_seed = Some(1)
    /\ path_query_json \in QueryFiles

\* The generator is built from args.rng_seed or from entropy.
SeedRng ==
    /\ pc = "seed_rng"
    /\ rng' \in StdRngSeeds(rng_seed)
    /\ pc' = "load_query"
    /\ UNCHANGED <<query, gene_vars, freq_vars, rng_seed, path_query_json, decodes, stats,
                   unsorted, sorted_iter, by_hgnc_filtered, by_coord, next_line, csv_buf,
                   out_file, rng_draws, result, spill, in_memory>>

\* The query is loaded from the file at args.path_query_json; run returns the
\* error when it cannot be.
LoadQuery ==
    /\ pc = "load_query"
    /\ LET loaded == QueryFromFile(path_query_json)
       IN  /\ decodes' = loaded.decodes
           /\ IF loaded.query.some
              THEN /\ query' = loaded.query.v
                   /\ pc' = "load_databases"
                   /\ UNCHANGED result
              ELSE /\ pc' = "failed"
                   /\ result' = "err"
                   /\ UNCHANGED query
    /\ UNCHANGED <<gene_vars, freq_vars, rng_seed, rng, path_query_json, stats, unsorted,
                   sorted_iter, by_hgnc_filtered, by_coord, next_line, csv_buf, out_file,
                   rng_draws, spill, in_memory>>

\* The databases and the annotator are loaded and run_query is called, which
\* opens the input and creates the unsorted file; or one of these fails.
LoadDatabases ==
    /\ pc = "load_databases"
    /\ \/ /\ pc' = "pass1"
          /\ spill' = [spill EXCEPT !["unsorted"] = CreateWriter(@)]
          /\ UNCHANGED result
       \/ /\ pc' = "failed"
          /\ result' = "err"
          /\ UNCHANGED spill
    /\ UNCHANGED <<query, gene_vars, freq_vars, load_vars, stats, unsorted, sorted_iter,
                   by_hgnc_filtered, by_coord, next_line, csv_buf, out_file, rng_draws,
                   in_memory>>

NextRun ==
    \/ SeedRng \/ LoadQuery \/ LoadDatabases
    \/ Pass1Passed \/ Pass1Rejected \/ Pass1Error \/ Pass1Eof
    \/ Pass2Sort \/ Pass2Group \/ Pass2Flush
    \/ Pass3 \/ Pass3Flush
    \/ CreateOutput \/ CreateOutputError
    \/ EmitRecord \/ Finish

SpecSeed == InitSeed /\ [][NextRun]_vars

SpecQueryFile == InitQueryFile /\ [][NextRun]_vars

-----------------------------------------------------------------------------
(* Properties of run_query.                                                  *)

IsRow(r) == r.kind = "row"

\* The data rows of the output file.
FileRows == SelectSeq(out_file.rows, IsRow)

Lines(recs) == {recs[j].line : j \in DOMAIN recs}

UnsortedLines == {unsorted[j].seqvar.line : j \in DOMAIN unsorted}

\* The records of one gene that passed pass 1, in the order pass 1 wrote them.
PassedGroup(hgnc_id) ==
    LET SameGene(b) == b.hgnc_id = hgnc_id
        members == SelectSeq(unsorted, SameGene)
    IN  [j \in DOMAIN members |-> members[j].seqvar]

Survives(b) == passes_for_gene(query, PassedGroup(b.hgnc_id)) = "true"

RowOf(r, seqvar) ==
    /\ r.line = seqvar.line
    /\ r.chromosome = seqvar.vcf_variant.chrom
    /\ r.start = seqvar.vcf_variant.pos

\* The data rows written so far, flushed to the file or not.
WrittenRows == SelectSeq(out_file.rows \o csv_buf, IsRow)

\* C1. Exactly-once: every output row written is the row of one record that
\* passed pass 1 and whose gene group passed passes_for_gene, and no record has
\* two rows; after a successful run every such record has a row, and the
\* number of rows is at most the number of records that passed pass 1.
C1_ExactlyOnce ==
    /\ \A i, j \in DOMAIN WrittenRows :
          i # j => WrittenRows[i].line # WrittenRows[j].line
    /\ \A i \in DOMAIN WrittenRows :
          \E k \in DOMAIN unsorted :
              RowOf(WrittenRows[i], unsorted[k].seqvar) /\ Survives(unsorted[k])
    /\ result = "ok" =>
          /\ FileRows = WrittenRows
          /\ \A k \in DOMAIN unsorted :
                Survives(unsorted[k]) => unsorted[k].seqvar.line \in Lines(FileRows)
          /\ Len(FileRows) <= stats.count_passed

\* A successful run in which pass 1 rejected a record, the recessive filter
\* rejected a gene group and another group came through.
C1_Witness ==
    /\ result = "ok"
    /\ query.recessive_mode = "CompoundHeterozygous"
    /\ Len(FileRows) = 2
    /\ stats.count_passed = 3
    /\ \E k \in DOMAIN unsorted : ~Survives(unsorted[k])

RowKeyLeq(a, b) ==
    \/ a.chromosome_no < b.chromosome_no
    \/ a.chromosome_no = b.chromosome_no /\ a.start <= b.start

\* C2. Coordinate ordering: in the output of a successful run every pair of
\* consecutive rows is in (chromosome number, start) order, the chromosome
\* number being the canonical one.
C2_CoordinateOrder ==
    result = "ok" =>
        \A i \in DOMAIN FileRows :
            i + 1 \in DOMAIN FileRows => RowKeyLeq(FileRows[i], FileRows[i + 1])

\* A successful run whose input had chromosome 10 before chromosome 2 and a
\* greater position before a smaller one.
C2_Witness ==
    /\ result = "ok"
    /\ Len(FileRows) = 3
    /\ FileRows[1].chromosome = "2" /\ FileRows[1].line = 3
    /\ FileRows[2].chromosome = "10" /\ FileRows[2].line = 2
    /\ FileRows[3].chromosome = "10" /\ FileRows[3].line = 1

\* C3. No partial output on failure: when run_query has failed, the file at
\* path_output does not exist or holds no row.
C3_NoPartialOutput ==
    result \in {"err", "panic"} => (~out_file.exists \/ out_file.rows = <<>>)

\* C7. Disabled recessive mode is a no-op: pass 2 never fails and keeps every
\* record of the unsorted file, and a successful run has one output row for
\* every record that passed pass 1.
C7_DisabledNoOp ==
    query.recessive_mode = "Disabled" =>
        /\ ~(result = "panic" /\ ~out_file.exists)
        /\ pc \in {"pass3", "pass3_written", "create_output", "emit", "done"} =>
              /\ Len(by_hgnc_filtered) = Len(unsorted)
              /\ {by_hgnc_filtered[j].seqvar.line : j \in DOMAIN by_hgnc_filtered}
                    = UnsortedLines
        /\ result = "ok" =>
              /\ Len(FileRows) = stats.count_passed
              /\ Lines(FileRows) = UnsortedLines

\* A successful run in disabled mode with two rows, one of a record whose index
\* genotype cannot be parsed.
C7_Witness ==
    /\ query.recessive_mode = "Disabled"
    /\ result = "ok"
    /\ Len(FileRows) = 2
    /\ \E k \in DOMAIN by_coord : by_coord[k].call_infos["index"] = "0/x"

\* The records the step takes from the sorted iterator of pass 2.
TakenFromIterator == SubSeq(sorted_iter, 1, Len(sorted_iter) - Len(sorted_iter'))

\* The lines the step appends to by_hgnc_filtered.
AppendedToFiltered ==
    SubSeq(by_hgnc_filtered', Len(by_hgnc_filtered) + 1, Len(by_hgnc_filtered'))

\* C14. Group integrity in pass 2: every step on the sorted iterator takes all
\* records of the unsorted file that have the gene identifier of the first
\* record, and leaves none of them in the iterator; when passes_for_gene is
\* true for them every member is appended to by_hgnc_filtered, once, keyed by
\* its own coordinate, and when it is false nothing is appended.
C14_GroupIntegrity ==
    [][ (pc = "pass2_groups" /\ sorted_iter # <<>>) =>
          LET id == Head(sorted_iter).hgnc_id
              group == PassedGroup(id)
              passes == passes_for_gene(query, group)
          IN  /\ Len(TakenFromIterator) = Len(group)
              /\ Lines(GroupSeqvars(TakenFromIterator)) = Lines(group)
              /\ \A k \in DOMAIN sorted_iter' : sorted_iter'[k].hgnc_id # id
              /\ passes = "true" =>
                    /\ by_hgnc_filtered' = by_hgnc_filtered \o AppendedToFiltered
                    /\ Len(AppendedToFiltered) = Len(group)
                    /\ \A j \in DOMAIN group :
                          \E k \in DOMAIN AppendedToFiltered :
                              /\ AppendedToFiltered[k].seqvar = group[j]
                              /\ AppendedToFiltered[k].pos = group[j].vcf_variant.pos
              /\ passes = "false" => by_hgnc_filtered' = by_hgnc_filtered
      ]_vars

\* Pass 2 is over: the two records of HGNC:1, which pass 1 wrote with a record
\* of HGNC:2 between them, were both written, and the group of HGNC:2 was not.
C14_Witness ==
    /\ pc = "pass3"
    /\ query.recessive_mode = "CompoundHeterozygous"
    /\ Len(unsorted) = 3
    /\ unsorted[1].hgnc_id = "HGNC:1" /\ unsorted[2].hgnc_id = "HGNC:2"
    /\ unsorted[3].hgnc_id = "HGNC:1"
    /\ Len(by_hgnc_filtered) = 2
    /\ \A k \in DOMAIN by_hgnc_filtered : by_hgnc_filtered[k].seqvar.hgnc_id = "HGNC:1"

\* The lines written to a spill file so far, buffered or not.
SpillLines(name) ==
    CASE name = "unsorted" -> unsorted
      [] name = "by_hgnc_filtered" -> by_hgnc_filtered
      [] name = "by_coord" -> by_coord

C16_HeaderOnce ==
    result = "ok" =>
        /\ out_file.exists
        /\ Len(out_file.rows) >= 1
        /\ out_file.rows[1] = HeaderRow
        /\ \A k \in DOMAIN out_file.rows : k > 1 => IsRow(out_file.rows[k])

\* C25. Random generator frame: the generator is advanced only by the emission
\* step, once for each row written (and once more when a record's row could
\* not be written), so passes 1 to 3 leave it alone; the k-th row carries the
\* k-th draw, and after a successful run there are as many draws as rows.
C25_RngOnlyAtEmission ==
    /\ [](/\ Len(WrittenRows) <= rng_draws
          /\ \A k \in DOMAIN WrittenRows : WrittenRows[k].sodar_uuid = UuidBytes(rng, k)
          /\ result = "ok" => rng_draws = Len(FileRows))
    /\ [][ /\ rng_draws' # rng_draws =>
                /\ pc = "emit"
                /\ rng_draws' = rng_draws + 1
                /\ \/ Len(WrittenRows') = Len(WrittenRows) + 1
                   \/ result' \in {"err", "panic"}
           /\ WrittenRows' # WrittenRows =>
                /\ rng_draws' = rng_draws + 1
                /\ Len(WrittenRows') = Len(WrittenRows) + 1
         ]_vars

\* A successful run that read three records and wrote two rows with two draws.
C25_Witness ==
    /\ result = "ok"
    /\ stats.count_total = 3
    /\ Len(FileRows) = 2
    /\ rng_draws = 2

\* The vcf_variant of the record a row was written for.
VariantOfRow(r) ==
    LET k == CHOOSE k \in DOMAIN unsorted : unsorted[k].seqvar.line = r.line
    IN  unsorted[k].seqvar.vcf_variant

\* The width of the bins of a level of the binning scheme, in bases.
BinWidth(level) == 131072 * 8 ^ (level - 1)

\* The bin is the smallest bin of the scheme that holds the span [begin, end).
SmallestBinOf(bin, begin, end) ==
    \E level \in DOMAIN BinOffsets :
        LET no == bin - BinOffsets[level]
        IN  /\ no >= 0
            /\ no < 8 ^ (Len(BinOffsets) - level)
            /\ begin \div BinWidth(level) = no
            /\ (end - 1) \div BinWidth(level) = no
            /\ \A finer \in 1..(level - 1) :
                  begin \div BinWidth(finer) # (end - 1) \div BinWidth(finer)

\* C26. End position and bin: every row written has end = start + len(ref) - 1
\* of its record, start being the one-based position, and its bin is the
\* smallest bin holding the zero-based half-open span [start - 1, end); rows of
\* records with the same start and reference length have the same end and bin.
C26_EndAndBin ==
    /\ \A k \in DOMAIN WrittenRows :
          LET r == WrittenRows[k]
              v == VariantOfRow(r)
          IN  /\ r.start = v.pos
              /\ r.end = r.start + v.ref_len - 1
              /\ SmallestBinOf(r.bin, r.start - 1, r.end)
    /\ \A i, j \in DOMAIN WrittenRows :
          LET vi == VariantOfRow(WrittenRows[i])
              vj == VariantOfRow(WrittenRows[j])
          IN  (vi.pos = vj.pos /\ vi.ref_len = vj.ref_len) =>
                  /\ WrittenRows[i].end = WrittenRows[j].end
                  /\ WrittenRows[i].bin = WrittenRows[j].bin

\* A row of the record at the first base of the second 128 kb window, two
\* bases long: its span starts in the first window, so its bin is on the
\* second level; and a row of a record inside the first window.
C26_Witness ==
    /\ result = "ok"
    /\ \E k \in DOMAIN FileRows :
          /\ FileRows[k].start = 131072
          /\ FileRows[k].end = 131073
          /\ FileRows[k].bin = 73
    /\ \E k \in DOMAIN FileRows :
          /\ FileRows[k].start = 5
          /\ FileRows[k].end = 5
          /\ FileRows[k].bin = 585

\* C28. QueryStats: count_passed never exceeds count_total and is the number
\* of records written to the unsorted file, all of which are on the file once
\* pass 1 has ended; the counters change only in pass 1, where every record
\* read adds one to count_total and a record adds one to count_passed exactly
\* when it is written to the unsorted file.
C28_QueryStats ==
    /\ [](/\ stats.count_passed <= stats.count_total
          /\ stats.count_passed = Len(unsorted)
          /\ pc \notin {"pass1", "failed"} =>
                stats.count_passed = Len(FileLines(unsorted, spill["unsorted"])))
    /\ [][ /\ stats' # stats =>
                /\ pc = "pass1"
                /\ stats'.count_total = stats.count_total + 1
                /\ stats'.count_passed \in {stats.count_passed, stats.count_passed + 1}
           /\ unsorted' # unsorted =>
                /\ stats'.count_passed = stats.count_passed + 1
                /\ Len(unsorted') = Len(unsorted) + 1
         ]_vars

\* A successful run that read three records of which pass 1 passed two, and
\* wrote a row.
C28_Witness ==
    /\ result = "ok"
    /\ stats = [count_total |-> 3, count_passed |-> 2]
    /\ Len(FileRows) >= 1

\* Pass 2 as a function: the lines of the groups of the sorted records that
\* pass passes_for_gene.
RECURSIVE FilteredGroups(_, _)
FilteredGroups(q, it) ==
    IF it = <<>> THEN <<>>
    ELSE LET n == ChunkLen(it)
             group == GroupSeqvars(SubSeq(it, 1, n))
         IN  (IF passes_for_gene(q, group) = "true" THEN GroupLines(group) ELSE <<>>)
                 \o FilteredGroups(q, SubSeq(it, n + 1, Len(it)))

\* The rows of the output file as a function of the query, of the records that
\* passed the interpreter, in the order of the input, and of the seed.
RowsOf(q, passed, seed) ==
    LET lines == Pass3Lines(FilteredGroups(q, SortByHgncId(passed)))
        rows == [k \in DOMAIN lines |-> OutputRow(lines[k], UuidBytes(seed, k))]
    IN  IF rows = <<>> THEN <<>> ELSE <<HeaderRow>> \o rows

QueryFileRead == pc \notin {"seed_rng", "load_query"}

\* C27. Query loading with fallback: once the query file has been read, the
\* older format was tried only if decoding in the current format failed; a
\* file that decodes in the current format gave the query without the older
\* format being tried; a file that decodes only in the older format, and
\* converts, gave the converted query; and when the file decodes in neither
\* (or does not convert, or cannot be opened) the run has ended with an error,
\* no record read and nothing written.
C27_QueryFallback ==
    QueryFileRead =>
        LET file == path_query_json
            legacy_ok == file.legacy.some /\ file.convertible
        IN  /\ "pbs" \in {decodes[k] : k \in DOMAIN decodes} =>
                  (file.readable /\ ~file.current.some)
            /\ (file.readable /\ file.current.some) =>
                  (decodes = <<"CaseQuery">> /\ query = file.current.v)
            /\ (file.readable /\ ~file.current.some) => decodes = <<"CaseQuery", "pbs">>
            /\ (file.readable /\ ~file.current.some /\ legacy_ok) => query = file.legacy.v
            /\ (~file.readable \/ (~file.current.some /\ ~legacy_ok)) =>
                  /\ pc = "failed"
                  /\ result = "err"
                  /\ query = NoQuery
                  /\ stats.count_total = 0
                  /\ unsorted = <<>>
                  /\ out_file = NoFile
                  /\ spill = [name \in SpillFiles |-> Unopened]

\* A file that decodes in neither format: both were tried and run failed.
C27_Witness ==
    /\ path_query_json = QueryFile(TRUE, None, None, FALSE)
    /\ decodes = <<"CaseQuery", "pbs">>
    /\ pc = "failed"
    /\ result = "err"
    /\ out_file = NoFile

\* A record that came through both filters has a chromosome without a
\* canonical chromosome number.
SurvivorWithUnknownChrom ==
    \E k \in DOMAIN by_coord : by_coord[k].vcf_variant.chrom \notin DOMAIN ChromToChromNo

\* The query is recessive and gives no sample the index role.
NoIndexRole == query.recessive_mode # "Disabled" /\ ExtractFamily(query).index = ""

\* C13. Configuration errors abort before output: with a surviving record of
\* unknown chromosome, or a recessive query without index, the run never
\* succeeds, the output file is never created and no row is ever written.
C13_ConfigErrorBeforeOutput ==
    (SurvivorWithUnknownChrom \/ NoIndexRole) =>
        /\ result # "ok"
        /\ ~out_file.exists
        /\ csv_buf = <<>>

-----------------------------------------------------------------------------
(* passes_for_gene, statement by statement, on one group.                    *)

Variants(q) == [call_infos : CallInfos(q)]

Groups(q) == UNION { [1..n -> Variants(q)] : n \in 1..MaxGroup }

\* run_query is not running.
RunIdle ==
    /\ pc = "idle"
    /\ stats = [count_total |-> 0, count_passed |-> 0]
    /\ unsorted = <<>>
    /\ sorted_iter = <<>>
    /\ by_hgnc_filtered = <<>>
    /\ by_coord = <<>>
    /\ next_line = 0
    /\ csv_buf = <<>>
    /\ out_file = NoFile
    /\ rng_draws = 0
    /\ result = "running"
    /\ spill = [name \in SpillFiles |-> Unopened]
    /\ in_memory = NothingInMemory

InitGene ==
    /\ RunIdle
    /\ FreqIdle
    /\ LoadIdle
    /\ query \in Queries
    /\ seqvars \in Groups(query)
    /\ next_var = 0
    /\ seen_het_parents = {}
    /\ seen_ref_parents = {}
    /\ seen_index_het = 0
    /\ ret = "none"

\* Short-circuit in case of disabled recessive mode.
DisabledReturn ==
    /\ ret = "none"
    /\ query.recessive_mode = "Disabled"
    /\ ret' = "true"
    /\ UNCHANGED <<query, seqvars, next_var, seen_het_parents, seen_ref_parents,
                   seen_index_het, run_vars, freq_vars, load_vars>>

\* One iteration of the loop over the group.
LoopIteration ==
    /\ ret = "none"
    /\ query.recessive_mode # "Disabled"
    /\ next_var < Len(seqvars)
    /\ LET st == StepVariant(query.recessive_mode, ExtractFamily(query),
                             LoopState(seen_het_parents, seen_ref_parents,
                                       seen_index_het, "none"),
                             seqvars[next_var + 1])
       IN  /\ seen_het_parents' = st.het
           /\ seen_ref_parents' = st.ref
           /\ seen_index_het' = st.cnt
           /\ ret' = st.ret
    /\ next_var' = next_var + 1
    /\ UNCHANGED <<query, seqvars, run_vars, freq_vars, load_vars>>

\* The loop is over: the recessive condition is checked.
LoopExit ==
    /\ ret = "none"
    /\ query.recessive_mode # "Disabled"
    /\ next_var = Len(seqvars)
    /\ ret' = BoolStr(FinalDecision(query.recessive_mode, ExtractFamily(query),
                                    LoopState(seen_het_parents, seen_ref_parents,
                                              seen_index_het, "none")))
    /\ UNCHANGED <<query, seqvars, next_var, seen_het_parents, seen_ref_parents,
                   seen_index_het, run_vars, freq_vars, load_vars>>

NextGene == DisabledReturn \/ LoopIteration \/ LoopExit

SpecGene == InitGene /\ [][NextGene]_vars

-----------------------------------------------------------------------------
(* Properties of passes_for_gene.                                            *)

Mode == query.recessive_mode

\* The family of every query of the model, extracted once.
FamilyOf == [q \in Queries |-> ExtractFamily(q)]

ParentSetOf ==
    [q \in Queries |-> {FamilyOf[q].parents[j] : j \in DOMAIN FamilyOf[q].parents}]

Fam == FamilyOf[query]

ParentSet == ParentSetOf[query]

\* The parsed genotype of a sample in a variant.
Gt(v, name) == Parse(v.call_infos[name])

Returned == ret # "none"

HasHomAltParent(v) == \E p \in ParentSet : Gt(v, p) = "HomAlt"

\* The parents of the variant fit the compound heterozygous pattern.
ParentsFitCompHet(v) ==
    \/ Cardinality(ParentSet) = 0
    \/ Cardinality(ParentSet) = 1 /\ \E p \in ParentSet : Gt(v, p) \in {"Het", "HomRef"}
    \/ /\ Cardinality(ParentSet) = 2
       /\ \E p, q \in ParentSet : p # q /\ Gt(v, p) = "Het" /\ Gt(v, q) = "HomRef"

\* A variant counted as index-heterozygous-compatible.
Counted(v) == Gt(v, Fam.index) = "Het" /\ ParentsFitCompHet(v)

\* A variant that fits the homozygous recessive pattern.
HomCompatible(v) ==
    /\ Gt(v, Fam.index) = "HomAlt"
    /\ ~HasHomAltParent(v)
    /\ \A p \in ParentSet : Gt(v, p) = "Het"

CountedVariants == {j \in DOMAIN seqvars : Counted(seqvars[j])}

CompHetEvidence ==
    /\ Cardinality(CountedVariants) >= 2
    /\ \A p \in ParentSet : \E j \in CountedVariants : Gt(seqvars[j], p) = "Het"
    /\ \A p \in ParentSet : \E j \in CountedVariants : Gt(seqvars[j], p) = "HomRef"

TrioQuery == Len(query.sample_genotypes) = 3

TrioVariant(i, f, m) == [call_infos |-> Trio(i, f, m)]

\* C4. Compound-heterozygous group decision: in mode CompoundHeterozygous, and
\* in mode Any when no variant fits the homozygous pattern, passes_for_gene
\* returns true exactly when at least two variants were counted, every parent
\* is het. in a counted variant and every parent is hom. ref. in a counted one.
C4_CompHetDecision ==
    ( /\ Returned
      /\ \/ Mode = "CompoundHeterozygous"
         \/ Mode = "Any" /\ \A j \in DOMAIN seqvars : ~HomCompatible(seqvars[j]) )
    => /\ ret \in {"true", "false"}
       /\ (ret = "true") <=> CompHetEvidence

\* [Het/Het/HomRef, Het/HomRef/Het] has passed in mode CompoundHeterozygous.
C4_Witness ==
    /\ Mode = "CompoundHeterozygous"
    /\ TrioQuery
    /\ seqvars = <<TrioVariant("0/1", "0/1", "0/0"), TrioVariant("0/1", "0/0", "0/1")>>
    /\ ret = "true"

\* C5. Homozygous branch: in mode Homozygous or Any a group with a variant
\* whose index is hom. alt., with no hom. alt. parent and every parent het.,
\* passes; a group in which every variant has a hom. alt. index and a parent
\* that is not het. does not pass.
C5_HomozygousBranch ==
    (Returned /\ Mode \in {"Homozygous", "Any"}) =>
        /\ (\E j \in DOMAIN seqvars : HomCompatible(seqvars[j])) => ret = "true"
        /\ (\A j \in DOMAIN seqvars :
               Gt(seqvars[j], Fam.index) = "HomAlt" /\ ~HomCompatible(seqvars[j]))
             => ret = "false"

\* [Het/HomRef/Het, HomAlt/Het/Het] has passed in mode Any: the second variant
\* alone makes the group pass.
C5_Witness ==
    /\ Mode = "Any"
    /\ TrioQuery
    /\ seqvars = <<TrioVariant("0/1", "0/0", "0/1"), TrioVariant("1/1", "0/1", "0/1")>>
    /\ ret = "true"

\* C6. Homozygous-only mode: passes_for_gene returns true exactly when some
\* variant fits the homozygous pattern, and no variant is ever counted as
\* compound heterozygous evidence.
C6_HomozygousOnly ==
    Mode = "Homozygous" =>
        /\ seen_index_het = 0 /\ seen_het_parents = {} /\ seen_ref_parents = {}
        /\ Returned =>
             /\ ret \in {"true", "false"}
             /\ (ret = "true") <=> \E j \in DOMAIN seqvars : HomCompatible(seqvars[j])

\* [Het/Het/HomRef, Het/HomRef/Het] has failed in mode Homozygous.
C6_Witness ==
    /\ Mode = "Homozygous"
    /\ TrioQuery
    /\ seqvars = <<TrioVariant("0/1", "0/1", "0/0"), TrioVariant("0/1", "0/0", "0/1")>>
    /\ ret = "false"

NoHomAltParent(v) == ~HasHomAltParent(v)

LoopStart == LoopState({}, {}, 0, "none")

\* C8. A variant with a hom. alt. parent is discarded without failing the
\* group: the sets and the counter are those of the variants read so far
\* without such variants, and the value returned is that of the group without
\* them.
C8_HomAltParentDiscarded ==
    /\ Mode # "Disabled" =>
          LET kept == SelectSeq(SubSeq(seqvars, 1, next_var), NoHomAltParent)
              st == LoopFold(Mode, Fam, LoopStart, kept)
          IN  /\ seen_het_parents = st.het
              /\ seen_ref_parents = st.ref
              /\ seen_index_het = st.cnt
    /\ Returned => ret = passes_for_gene(query, SelectSeq(seqvars, NoHomAltParent))

\* A group with a variant that has a hom. alt. parent has passed.
C8_Witness ==
    /\ Mode = "Any"
    /\ TrioQuery
    /\ seqvars = <<TrioVariant("1/1", "1/1", "0/1"), TrioVariant("1/1", "0/1", "0/1")>>
    /\ next_var = 2
    /\ ret = "true"

\* The effect of one iteration on an index-het. variant v.
C9Effect(v) ==
    /\ ret' = "none"
    /\ IF ParentsFitCompHet(v)
       THEN /\ seen_index_het' = seen_index_het + 1
            /\ seen_het_parents' =
                 seen_het_parents \cup {p \in ParentSet : Gt(v, p) = "Het"}
            /\ seen_ref_parents' =
                 seen_ref_parents \cup {p \in ParentSet : Gt(v, p) = "HomRef"}
       ELSE UNCHANGED <<seen_index_het, seen_het_parents, seen_ref_parents>>

\* C9. Per-variant classification: an iteration on an index-het. variant in
\* mode CompoundHeterozygous or Any counts the variant and records its het.
\* and hom. ref. parents when there is no parent, one parent that is het. or
\* hom. ref., or two parents of which one is het. and the other hom. ref.;
\* otherwise it changes neither the counter nor the sets; in no case does it
\* make the function return.
C9_PerVariantClassification ==
    [][ ( /\ ret = "none"
          /\ next_var' = next_var + 1
          /\ Mode \in {"CompoundHeterozygous", "Any"}
          /\ Gt(seqvars[next_var + 1], Fam.index) = "Het" )
        => C9Effect(seqvars[next_var + 1]) ]_vars

\* A variant Het/Het/HomRef of a trio has been counted and recorded.
C9_Witness ==
    /\ Mode = "CompoundHeterozygous"
    /\ TrioQuery
    /\ next_var = 1
    /\ seqvars[1] = TrioVariant("0/1", "0/1", "0/0")
    /\ seen_index_het = 1
    /\ seen_het_parents = {"father"}
    /\ seen_ref_parents = {"mother"}
    /\ ret = "none"

\* The variants read so far whose index is het.
IndexHetRead == {j \in 1..next_var : Gt(seqvars[j], Fam.index) = "Het"}

\* C10. Only index-het. variants count: the counter is at most the number of
\* index-het. variants read and every recorded parent was seen in one of them,
\* in every mode; a group without index-het. variant fails in mode
\* CompoundHeterozygous, and [HomAlt/HomRef/HomRef, Het/HomRef/Het] fails in
\* mode Any.
C10_OnlyIndexHetCounts ==
    /\ seen_index_het <= Cardinality(IndexHetRead)
    /\ \A p \in seen_het_parents : \E j \in IndexHetRead : Gt(seqvars[j], p) = "Het"
    /\ \A p \in seen_ref_parents : \E j \in IndexHetRead : Gt(seqvars[j], p) = "HomRef"
    /\ ( /\ Returned
         /\ Mode = "CompoundHeterozygous"
         /\ \A j \in DOMAIN seqvars : Gt(seqvars[j], Fam.index) # "Het" )
       => ret = "false"
    /\ ( /\ Returned
         /\ Mode = "Any"
         /\ TrioQuery
         /\ seqvars = <<TrioVariant("1/1", "0/0", "0/0"), TrioVariant("0/1", "0/0", "0/1")>> )
       => ret = "false"

\* The single variant HomAlt/HomRef/HomRef has failed in mode
\* CompoundHeterozygous.
C10_Witness ==
    /\ Mode = "CompoundHeterozygous"
    /\ TrioQuery
    /\ seqvars = <<TrioVariant("1/1", "0/0", "0/0")>>
    /\ ret = "false"

\* The orders of a group: the bijections of its positions.
GroupOrders(n) ==
    { p \in [1..n -> 1..n] : \A i, j \in 1..n : p[i] = p[j] => i = j }

Permuted(vs, p) == [i \in 1..Len(vs) |-> vs[p[i]]]

\* C29. Order independence within a gene group: for a group whose genotypes
\* all parse and a family with at most two parents, the result the loop of
\* passes_for_gene returned is the result of passes_for_gene on every
\* permutation of the group.
C29_OrderIndependent ==
    Returned =>
        \A p \in GroupOrders(Len(seqvars)) :
            passes_for_gene(query, Permuted(seqvars, p)) = ret

\* A group of a variant with a hom. ref. index followed by one that fits the
\* homozygous pattern has passed in mode Any.
C29_Witness ==
    /\ Mode = "Any"
    /\ TrioQuery
    /\ seqvars = <<TrioVariant("0/0", "0/1", "0/0"), TrioVariant("1/1", "0/1", "0/1")>>
    /\ ret = "true"

-----------------------------------------------------------------------------
(* passes_for_gene on queries and groups the caller should not hand over:    *)
(* more than two parents, no index, samples without call info or without GT, *)
(* genotype strings that do not parse.                                       *)

\* sample_genotypes with three samples in a parent role, with a full trio, and
\* with no sample in the index role.
InvalidSampleGenotypeConfigs ==
    { <<Sample("index", "RecessiveIndex"), Sample("father", "RecessiveFather"),
        Sample("mother", "RecessiveMother"), Sample("uncle", "RecessiveFather")>>,
      <<Sample("index", "RecessiveIndex"), Sample("father", "RecessiveFather"),
        Sample("mother", "RecessiveMother")>>,
      <<Sample("father", "RecessiveFather"), Sample("mother", "RecessiveMother")>> }

InvalidQueries ==
    [recessive_mode : RecessiveModes, sample_genotypes : InvalidSampleGenotypeConfigs]

\* A parent's genotype strings in these groups.
ParentGtStrings == {"0/1", "0/0"}

\* call_infos with a parseable genotype for every sample of the query.
ParseableCallInfos(q) ==
    {ci \in [SampleNames(q) -> GtStrings \ {"./."}] :
        \A name \in SampleNames(q) : name # "index" => ci[name] \in ParentGtStrings}

\* The call_infos of a record in which every sample is het. but for `name`,
\* whose entry is `entry`.
AllHetBut(q, name, entry) ==
    [n \in SampleNames(q) |-> IF n = name THEN entry ELSE "0/1"]

\* The call_infos of a record in which every sample is het. and `name` has no
\* call info.
AllHetWithout(q, name) == [n \in SampleNames(q) \ {name} |-> "0/1"]

\* call_infos in which one sample has an unparseable genotype string, no GT,
\* or no call info.
BadCallInfos(q) ==
    UNION { {AllHetBut(q, name, "0/x"), AllHetBut(q, name, NoGT), AllHetWithout(q, name)} :
            name \in SampleNames(q) }

InvalidVariants(q) == [call_infos : ParseableCallInfos(q) \cup BadCallInfos(q)]

InvalidGroups(q) == UNION { [1..n -> InvalidVariants(q)] : n \in 1..MaxGroup }

InitInvalid ==
    /\ RunIdle
    /\ FreqIdle
    /\ LoadIdle
    /\ query \in InvalidQueries
    /\ seqvars \in InvalidGroups(query)
    /\ next_var = 0
    /\ seen_het_parents = {}
    /\ seen_ref_parents = {}
    /\ seen_index_het = 0
    /\ ret = "none"

SpecInvalid == InitInvalid /\ [][NextGene]_vars

\* The query gives a parent role to more than two samples.
MoreThanTwoParents == Len(ExtractFamily(query).parents) > 2

\* C11. More than two parents are rejected: for such a query in a mode other
\* than Disabled, passes_for_gene never returns true or false, whatever the
\* group holds.
C11_MoreThanTwoParentsRejected ==
    (MoreThanTwoParents /\ Mode # "Disabled" /\ Returned) => ret \in {"error", "panic"}

\* The sample is the index or a parent of the query.
Required(name) ==
    LET fam == ExtractFamily(query)
    IN  name = fam.index \/ \E j \in DOMAIN fam.parents : fam.parents[j] = name

\* The variant has no call info, no GT or an unparseable genotype string for
\* the index or a parent.
BadGenotypeData(v) ==
    \E name \in SampleNames(query) :
        /\ Required(name)
        /\ \/ name \notin DOMAIN v.call_infos
           \/ v.call_infos[name] = NoGT
           \/ Parse(v.call_infos[name]) = "ParseError"

\* C12. Bad genotype data is fatal: in a mode other than Disabled, a group
\* with a variant that has bad genotype data for the index or a parent never
\* gets a true or false from passes_for_gene, at whatever position the variant
\* is.
C12_BadGenotypeFatal ==
    ( /\ Mode # "Disabled"
      /\ Returned
      /\ \E j \in DOMAIN seqvars : BadGenotypeData(seqvars[j]) )
    => ret \in {"error", "panic"}

-----------------------------------------------------------------------------
(* run_query by numbers of records: how many records each pass holds in      *)
(* memory. The contents of the records and of the files are left out; the    *)
(* number of records that passed pass 1 is stats.count_passed.               *)

\* Largest number of records that pass pass 1.
MaxSurvivors == 10001

\* What the steps below leave alone.
not_counted == <<query, gene_vars, freq_vars, load_vars, unsorted, sorted_iter, by_hgnc_filtered,
                 by_coord, next_line, csv_buf, out_file, rng_draws, spill>>

InitMem ==
    /\ FreqIdle
    /\ query \in {q \in PipelineQueries : q.recessive_mode = "Disabled"}
    /\ Loaded(query)
    /\ seqvars = <<>>
    /\ next_var = 0
    /\ seen_het_parents = {}
    /\ seen_ref_parents = {}
    /\ seen_index_het = 0
    /\ ret = "none"
    /\ pc = "pass1"
    /\ stats = [count_total |-> 0, count_passed |-> 0]
    /\ unsorted = <<>>
    /\ sorted_iter = <<>>
    /\ by_hgnc_filtered = <<>>
    /\ by_coord = <<>>
    /\ next_line = 0
    /\ csv_buf = <<>>
    /\ out_file = NoFile
    /\ rng_draws = 0
    /\ result = "running"
    /\ spill = [name \in SpillFiles |-> Unopened]
    /\ in_memory = NothingInMemory

\* Pass 1 on an input of n records that all pass the interpreter: one record
\* (record_buf) is held at a time.
MemPass1 ==
    /\ pc = "pass1"
    /\ \E n \in 0..MaxSurvivors : stats' = [count_total |-> n, count_passed |-> n]
    /\ pc' = "pass2"
    /\ UNCHANGED <<not_counted, result, in_memory>>

\* Pass 2: the sorter fills its buffer of elem_count records, spilling to disk
\* what does not fit.
MemPass2Sort ==
    /\ pc = "pass2"
    /\ in_memory' = [sorter |-> Min(stats.count_passed, elem_count), group |-> 0]
    /\ pc' = "pass2_groups"
    /\ UNCHANGED <<not_counted, result, stats>>

\* Pass 2: every group of the sorted iterator is collected into a Vec. The
\* records either all have the same gene identifier or all different ones;
\* the largest Vec is recorded.
MemPass2Groups ==
    /\ pc = "pass2_groups"
    /\ in_memory.group = 0
    /\ stats.count_passed > 0
    /\ \E largest \in {1, stats.count_passed} :
           in_memory' = [in_memory EXCEPT !.group = largest]
    /\ UNCHANGED <<not_counted, result, stats, pc>>

\* Pass 2 is over: sorter and groups are dropped.
MemPass2Flush ==
    /\ pc = "pass2_groups"
    /\ in_memory.group > 0 \/ stats.count_passed = 0
    /\ in_memory' = NothingInMemory
    /\ pc' = "pass3"
    /\ UNCHANGED <<not_counted, result, stats>>

\* Pass 3: the sorter fills its buffer; the sorted records are written one by
\* one.
MemPass3 ==
    /\ pc = "pass3"
    /\ in_memory' = [sorter |-> Min(stats.count_passed, elem_count), group |-> 0]
    /\ pc' = "pass3_written"
    /\ UNCHANGED <<not_counted, result, stats>>

\* Pass 3 is over, and the emission reads by_coord line by line.
MemFinish ==
    /\ pc = "pass3_written"
    /\ in_memory' = NothingInMemory
    /\ pc' = "done"
    /\ result' = "ok"
    /\ UNCHANGED <<not_counted, stats>>

NextMem ==
    \/ MemPass1 \/ MemPass2Sort \/ MemPass2Groups \/ MemPass2Flush \/ MemPass3 \/ MemFinish

SpecMem == InitMem /\ [][NextMem]_vars

\* C17. Bounded memory: neither the sorter nor a collected group ever holds
\* more than elem_count records, whatever the number of records and however
\* they are spread over the genes.
C17_BoundedMemory ==
    /\ in_memory.sorter <= elem_count
    /\ in_memory.group <= elem_count

-----------------------------------------------------------------------------
(* frequency::passes (src/seqvars/query/interpreter/frequency.rs).           *)

\* Largest carrier count of the variants.
MaxCount == 2

\* The thresholds of a gnomAD source: none set, one of them set, all set. A
\* frequency threshold is in units of 0.001, a count threshold is a count.
GnomadThresholds ==
    { [frequency |-> None, heterozygous |-> None, homozygous |-> None, hemizygous |-> None],
      [frequency |-> Some(1), heterozygous |-> None, homozygous |-> None, hemizygous |-> None],
      [frequency |-> None, heterozygous |-> Some(1), homozygous |-> None, hemizygous |-> None],
      [frequency |-> None, heterozygous |-> None, homozygous |-> Some(1), hemizygous |-> None],
      [frequency |-> None, heterozygous |-> None, homozygous |-> None, hemizygous |-> Some(1)],
      [frequency |-> Some(1), heterozygous |-> Some(1), homozygous |-> Some(1),
       hemizygous |-> Some(1)] }

HelixThresholds ==
    { [frequency |-> None, heteroplasmic |-> None, homoplasmic |-> None],
      [frequency |-> Some(1), heteroplasmic |-> None, homoplasmic |-> None],
      [frequency |-> None, heteroplasmic |-> Some(1), homoplasmic |-> None],
      [frequency |-> None, heteroplasmic |-> None, homoplasmic |-> Some(1)],
      [frequency |-> Some(1), heteroplasmic |-> Some(1), homoplasmic |-> Some(1)] }

NoThreshold(t) == \A k \in DOMAIN t : ~t[k].some

AllThresholds(t) == \A k \in DOMAIN t : t[k].some

\* The settings of a source: enabled with any of the thresholds, or disabled
\* with none or all of them set.
SourceOptions(thresholds) ==
    { [enabled |-> e, thresholds |-> t] : e \in BOOLEAN, t \in thresholds } \
        { o \in [enabled : {FALSE}, thresholds : thresholds] :
            ~NoThreshold(o.thresholds) /\ ~AllThresholds(o.thresholds) }

\* query.population_freqeuecy
PopulationFrequencyOptions ==
    [gnomad_exomes : SourceOptions(GnomadThresholds),
     gnomad_genomes : SourceOptions(GnomadThresholds),
     helixmtdb : SourceOptions(HelixThresholds)]

FrequencyQueries == [population_frequency : PopulationFrequencyOptions]

\* The counts of a variant in a gnomAD source: an allele number of 1000 and
\* at most one class of carriers that is not empty.
GnomadCounts ==
    { c \in [an : {1000}, het : 0..MaxCount, hom : 0..MaxCount, hemi : 0..MaxCount] :
        \/ c.het = 0 /\ c.hom = 0
        \/ c.het = 0 /\ c.hemi = 0
        \/ c.hom = 0 /\ c.hemi = 0 }

HelixCounts ==
    { c \in [an : {1000}, het : 0..MaxCount, hom : 0..MaxCount] : c.het = 0 \/ c.hom = 0 }

\* The SequenceVariant handed to passes: a nuclear or a mitochondrial one.
SequenceVariants ==
    [chrom : {"X", "MT", "chrM"}, gnomad_exomes : GnomadCounts, gnomad_genomes : GnomadCounts,
     helixmtdb : HelixCounts]

\* annonars::common::cli::canonicalize on the contig names of the model.
Canonicalize(chrom) ==
    CASE chrom \in {"chrM", "chrMT", "M", "MT"} -> "MT"
      [] chrom = "chrX" -> "X"
      [] OTHER -> chrom

\* gnomad_exomes_af, gnomad_genomes_af, helixmtdb_af: the allele frequency as
\* a fraction, 0 when the allele number is 0.
GnomadAf(c) ==
    IF c.an = 0 THEN [num |-> 0, den |-> 1]
    ELSE [num |-> c.het + 2 * c.hom + c.hemi, den |-> c.an]

HelixAf(c) ==
    IF c.an = 0 THEN [num |-> 0, den |-> 1]
    ELSE [num |-> c.het + 2 * c.hom, den |-> c.an]

\* threshold.is_some() && af > threshold.expect(..), the threshold in 0.001.
AfExceeds(af, threshold) == threshold.some /\ af.num * 1000 > threshold.v * af.den

\* A count threshold that also rejects a count equal to it.
CountExceeds_OrEqual(count, threshold) == threshold.some /\ count >= threshold.v

\* threshold.is_some() && count > threshold.expect(..)
CountExceeds(count, threshold) == threshold.some /\ count > threshold.v

\* let is_mtdna = canonicalize(&s.chrom) == "MT"
IsMtDna(s) == Canonicalize(s.chrom) = "MT"

\* The condition of the HelixMtDb block.
HelixRejects(pop, s) ==
    /\ pop.helixmtdb.enabled
    /\ \/ AfExceeds(HelixAf(s.helixmtdb), pop.helixmtdb.thresholds.frequency)
       \/ CountExceeds(s.helixmtdb.het, pop.helixmtdb.thresholds.heteroplasmic)
       \/ CountExceeds(s.helixmtdb.hom, pop.helixmtdb.thresholds.homoplasmic)

\* The condition of the gnomAD exomes block with the enabled flag bound to the
\* frequency test only (the parentheses around the tests left out).
ExomesRejects_FlagOnFrequencyOnly(pop, s) ==
    \/ /\ pop.gnomad_exomes.enabled
       /\ AfExceeds(GnomadAf(s.gnomad_exomes), pop.gnomad_exomes.thresholds.frequency)
    \/ CountExceeds(s.gnomad_exomes.het, pop.gnomad_exomes.thresholds.heterozygous)
    \/ CountExceeds(s.gnomad_exomes.hom, pop.gnomad_exomes.thresholds.homozygous)
    \/ CountExceeds(s.gnomad_exomes.hemi, pop.gnomad_exomes.thresholds.hemizygous)

\* The condition of the gnomAD exomes block.
ExomesRejects(pop, s) ==
    /\ pop.gnomad_exomes.enabled
    /\ \/ AfExceeds(GnomadAf(s.gnomad_exomes), pop.gnomad_exomes.thresholds.frequency)
       \/ CountExceeds(s.gnomad_exomes.het, pop.gnomad_exomes.thresholds.heterozygous)
       \/ CountExceeds(s.gnomad_exomes.hom, pop.gnomad_exomes.thresholds.homozygous)
       \/ CountExceeds(s.gnomad_exomes.hemi, pop.gnomad_exomes.thresholds.hemizygous)

\* The gnomAD genomes block skipped when gnomAD exomes was checked (the block
\* chained to the first one with `else if`).
GenomesRejects_SkippedAfterExomes(pop, s) ==
    /\ IsMtDna(s) \/ ~pop.gnomad_exomes.enabled
    /\ pop.gnomad_genomes.enabled
    /\ \/ AfExceeds(GnomadAf(s.gnomad_genomes), pop.gnomad_genomes.thresholds.frequency)
       \/ CountExceeds(s.gnomad_genomes.het, pop.gnomad_genomes.thresholds.heterozygous)
       \/ CountExceeds(s.gnomad_genomes.hom, pop.gnomad_genomes.thresholds.homozygous)
       \/ /\ ~IsMtDna(s)
          /\ CountExceeds(s.gnomad_genomes.hemi, pop.gnomad_genomes.thresholds.hemizygous)

\* The gnomAD genomes block with the hemizygous test on every contig.
GenomesRejects_HemiOnEveryContig(pop, s) ==
    /\ pop.gnomad_genomes.enabled
    /\ \/ AfExceeds(GnomadAf(s.gnomad_genomes), pop.gnomad_genomes.thresholds.frequency)
       \/ CountExceeds(s.gnomad_genomes.het, pop.gnomad_genomes.thresholds.heterozygous)
       \/ CountExceeds(s.gnomad_genomes.hom, pop.gnomad_genomes.thresholds.homozygous)
       \/ CountExceeds(s.gnomad_genomes.hemi, pop.gnomad_genomes.thresholds.hemizygous)

\* The condition of the gnomAD genomes block.
GenomesRejects(pop, s) ==
    /\ pop.gnomad_genomes.enabled
    /\ \/ AfExceeds(GnomadAf(s.gnomad_genomes), pop.gnomad_genomes.thresholds.frequency)
       \/ CountExceeds(s.gnomad_genomes.het, pop.gnomad_genomes.thresholds.heterozygous)
       \/ CountExceeds(s.gnomad_genomes.hom, pop.gnomad_genomes.thresholds.homozygous)
       \/ /\ ~IsMtDna(s)
          /\ CountExceeds(s.gnomad_genomes.hemi, pop.gnomad_genomes.thresholds.hemizygous)

\* The first check with the exomes block also taken by a mitochondrial variant
\* when HelixMtDb is disabled.
FirstCheckRejects_FallsThrough(pop, s) ==
    IF IsMtDna(s) /\ pop.helixmtdb.enabled THEN HelixRejects(pop, s)
    ELSE ExomesRejects(pop, s)

\* The first check with the exomes block taken on every contig (`if` instead
\* of `else if`).
FirstCheckRejects_ExomesOnEveryContig(pop, s) ==
    (IsMtDna(s) /\ HelixRejects(pop, s)) \/ ExomesRejects(pop, s)

\* if is_mtdna { HelixMtDb block } else if { gnomAD exomes block }
FirstCheckRejects(pop, s) ==
    IF IsMtDna(s) THEN HelixRejects(pop, s) ELSE ExomesRejects(pop, s)

\* passes(query, s)
frequency_passes(q, s) ==
    IF FirstCheckRejects(q.population_frequency, s) THEN FALSE
    ELSE IF GenomesRejects(q.population_frequency, s) THEN FALSE
    ELSE TRUE

InitFreq ==
    /\ LoadIdle
    /\ query \in FrequencyQueries
    /\ freq_seqvar \in SequenceVariants
    /\ freq_pass = "none"
    /\ pc = "first_check"
    /\ seqvars = <<>>
    /\ next_var = 0
    /\ seen_het_parents = {}
    /\ seen_ref_parents = {}
    /\ seen_index_het = 0
    /\ ret = "none"
    /\ stats = [count_total |-> 0, count_passed |-> 0]
    /\ unsorted = <<>>
    /\ sorted_iter = <<>>
    /\ by_hgnc_filtered = <<>>
    /\ by_coord = <<>>
    /\ next_line = 0
    /\ csv_buf = <<>>
    /\ out_file = NoFile
    /\ rng_draws = 0
    /\ result = "running"
    /\ spill = [name \in SpillFiles |-> Unopened]
    /\ in_memory = NothingInMemory

\* What passes leaves alone.
not_frequency == <<query, gene_vars, load_vars, freq_seqvar, stats, unsorted, sorted_iter,
                   by_hgnc_filtered, by_coord, next_line, csv_buf, out_file, rng_draws,
                   result, spill, in_memory>>

\* The HelixMtDb block of a mitochondrial variant, the gnomAD exomes block of
\* any other: return Ok(false), or go on.
FirstCheck ==
    /\ pc = "first_check"
    /\ IF FirstCheckRejects(query.population_frequency, freq_seqvar)
       THEN freq_pass' = "false" /\ pc' = "returned"
       ELSE freq_pass' = freq_pass /\ pc' = "genomes_check"
    /\ UNCHANGED not_frequency

\* The gnomAD genomes block: return Ok(false), or Ok(true).
GenomesCheck ==
    /\ pc = "genomes_check"
    /\ freq_pass' = BoolStr(~GenomesRejects(query.population_frequency, freq_seqvar))
    /\ pc' = "returned"
    /\ UNCHANGED not_frequency

NextFreq == FirstCheck \/ GenomesCheck

SpecFreq == InitFreq /\ [][NextFreq]_vars

-----------------------------------------------------------------------------
(* Properties of frequency::passes.                                          *)

Sources == {"gnomad_exomes", "gnomad_genomes", "helixmtdb"}

Pop == query.population_frequency

FreqReturned == pc = "returned"

\* The query with every threshold of the source unset.
WithoutThresholds(q, src) ==
    [q EXCEPT !.population_frequency[src].thresholds =
                  [k \in DOMAIN @ |-> None]]

\* The variant with no carrier of the source.
WithoutCarriers(s, src) ==
    [s EXCEPT ![src] = [k \in DOMAIN @ |-> IF k = "an" THEN @[k] ELSE 0]]

\* The query with the source disabled.
Disabled(q, src) == [q EXCEPT !.population_frequency[src].enabled = FALSE]

\* C18. A disabled source is inert: when passes has returned and a source is
\* disabled, the result is the one of the same query with no threshold set
\* for that source on the same variant with no carrier in that source, that
\* is, neither the thresholds nor the counts of the source bear on it.
C18_DisabledSourceInert ==
    \A src \in Sources :
        (FreqReturned /\ ~Pop[src].enabled) =>
            freq_pass = BoolStr(frequency_passes(WithoutThresholds(query, src),
                                                 WithoutCarriers(freq_seqvar, src)))

\* A nuclear variant with 2 hom. carriers in gnomAD exomes passed a query in
\* which gnomAD exomes is disabled with every threshold set.
C18_Witness ==
    /\ FreqReturned
    /\ freq_pass = "true"
    /\ ~IsMtDna(freq_seqvar)
    /\ ~Pop.gnomad_exomes.enabled
    /\ AllThresholds(Pop.gnomad_exomes.thresholds)
    /\ freq_seqvar.gnomad_exomes.hom = 2

\* C19. Monotonicity: when passes has accepted the variant, it also accepts
\* it under the query that differs only in that one enabled source is
\* disabled.
C19_DisablingIsMonotone ==
    \A src \in Sources :
        (FreqReturned /\ freq_pass = "true" /\ Pop[src].enabled) =>
            frequency_passes(Disabled(query, src), freq_seqvar)

\* A mitochondrial variant with 2 het. carriers in gnomAD exomes passed a query
\* in which HelixMtDb and gnomAD exomes are enabled with every threshold set.
C19_Witness ==
    /\ FreqReturned
    /\ freq_pass = "true"
    /\ IsMtDna(freq_seqvar)
    /\ Pop.helixmtdb.enabled /\ AllThresholds(Pop.helixmtdb.thresholds)
    /\ Pop.gnomad_exomes.enabled /\ AllThresholds(Pop.gnomad_exomes.thresholds)
    /\ freq_seqvar.gnomad_exomes.het = 2

\* The zygosity classes of a source: the threshold and the count of each.
CountClasses(src) ==
    IF src = "helixmtdb"
    THEN { [threshold |-> "heteroplasmic", count |-> "het"],
           [threshold |-> "homoplasmic", count |-> "hom"] }
    ELSE { [threshold |-> "heterozygous", count |-> "het"],
           [threshold |-> "homozygous", count |-> "hom"],
           [threshold |-> "hemizygous", count |-> "hemi"] }

ThresholdOf(src, class) == Pop[src].thresholds[class.threshold]

CarriersOf(src, class) == freq_seqvar[src][class.count]

\* The count check of the class is set and the count is above the threshold.
CountAbove(src, class) ==
    /\ Pop[src].enabled
    /\ ThresholdOf(src, class).some
    /\ CarriersOf(src, class) > ThresholdOf(src, class).v

\* The frequency check of the source is set and the frequency is above it.
FrequencyAbove(src) ==
    /\ Pop[src].enabled
    /\ AfExceeds(IF src = "helixmtdb" THEN HelixAf(freq_seqvar[src])
                 ELSE GnomadAf(freq_seqvar[src]),
                 Pop[src].thresholds.frequency)

\* The source is consulted for the contig of the variant.
SourceApplies(src) ==
    CASE src = "helixmtdb" -> IsMtDna(freq_seqvar)
      [] src = "gnomad_exomes" -> ~IsMtDna(freq_seqvar)
      [] src = "gnomad_genomes" -> TRUE

\* The class of the source is consulted for the contig of the variant.
ClassApplies(src, class) ==
    /\ SourceApplies(src)
    /\ ~(src = "gnomad_genomes" /\ class.count = "hemi" /\ IsMtDna(freq_seqvar))

\* C20 as stated. Count thresholds compare strictly: a count above the
\* threshold of an enabled source rejects the variant, and a variant is only
\* rejected when some count or frequency of an enabled source is above its
\* threshold (a count equal to or below it, or an unset threshold, rejects
\* nothing).
C20_CountThresholdsStrict_AnyContig ==
    FreqReturned =>
        /\ \A src \in Sources : \A class \in CountClasses(src) :
              CountAbove(src, class) => freq_pass = "false"
        /\ freq_pass = "false" =>
              \E src \in Sources :
                  \/ FrequencyAbove(src)
                  \/ \E class \in CountClasses(src) : CountAbove(src, class)

\* C20, amended. Count thresholds compare strictly where the source is
\* consulted: a count above the threshold of an enabled source rejects the
\* variant when the class is consulted for the contig (HelixMtDb on the
\* mitochondrial contig, gnomAD exomes elsewhere, gnomAD genomes everywhere
\* but for its hemizygous count on the mitochondrial contig), and a variant
\* is only rejected when some consulted count or frequency is above its
\* threshold.
C20_CountThresholdsStrict ==
    FreqReturned =>
        /\ \A src \in Sources : \A class \in CountClasses(src) :
              (CountAbove(src, class) /\ ClassApplies(src, class)) => freq_pass = "false"
        /\ freq_pass = "false" =>
              \E src \in Sources :
                  \/ FrequencyAbove(src) /\ SourceApplies(src)
                  \/ \E class \in CountClasses(src) :
                        CountAbove(src, class) /\ ClassApplies(src, class)

\* A nuclear variant whose hemizygous count in gnomAD genomes equals the
\* threshold passed, no other threshold of the source being set.
C20_Witness ==
    /\ FreqReturned
    /\ freq_pass = "true"
    /\ ~IsMtDna(freq_seqvar)
    /\ Pop.gnomad_genomes.enabled
    /\ Pop.gnomad_genomes.thresholds.hemizygous = Some(1)
    /\ ~Pop.gnomad_genomes.thresholds.frequency.some
    /\ freq_seqvar.gnomad_genomes.hemi = 1

\* Some frequency or count of the enabled source is above its threshold.
SourceAbove(src) ==
    \/ FrequencyAbove(src)
    \/ \E class \in CountClasses(src) : CountAbove(src, class)

\* C21. Nuclear loci check both gnomAD sources: for a variant that is not
\* mitochondrial, passes returns true exactly when neither gnomAD exomes nor
\* gnomAD genomes has a frequency or count above its threshold; when exomes
\* has one, passes returns false from the first block, whatever genomes holds.
C21_NuclearBothSources ==
    [][ ~IsMtDna(freq_seqvar) =>
          /\ (pc = "first_check" /\ SourceAbove("gnomad_exomes")) =>
                (pc' = "returned" /\ freq_pass' = "false")
          /\ pc' = "returned" =>
                (freq_pass' = "true" <=>
                    (~SourceAbove("gnomad_exomes") /\ ~SourceAbove("gnomad_genomes")))
      ]_vars

\* A nuclear variant that gnomAD exomes, enabled with every threshold set,
\* does not reject was rejected by gnomAD genomes.
C21_Witness ==
    /\ FreqReturned
    /\ freq_pass = "false"
    /\ ~IsMtDna(freq_seqvar)
    /\ Pop.gnomad_exomes.enabled /\ AllThresholds(Pop.gnomad_exomes.thresholds)
    /\ ~SourceAbove("gnomad_exomes")
    /\ SourceAbove("gnomad_genomes")

HemiClass == [threshold |-> "hemizygous", count |-> "hemi"]

\* The query with the hemizygous threshold of gnomAD genomes unset.
WithoutGenomesHemizygous(q) ==
    [q EXCEPT !.population_frequency.gnomad_genomes.thresholds.hemizygous = None]

\* C22. Mitochondrial loci and gnomAD genomes: for a mitochondrial variant
\* that HelixMtDb does not reject, passes returns false exactly when gnomAD
\* genomes is enabled and its frequency, heterozygous or homozygous test is
\* above the threshold, as for a nuclear variant; and the result is the one of
\* the same query with the hemizygous threshold of gnomAD genomes unset.
C22_MtDnaGenomes ==
    (FreqReturned /\ IsMtDna(freq_seqvar)) =>
        /\ ~SourceAbove("helixmtdb") =>
              (freq_pass = "false" <=>
                  \/ FrequencyAbove("gnomad_genomes")
                  \/ \E class \in CountClasses("gnomad_genomes") \ {HemiClass} :
                        CountAbove("gnomad_genomes", class))
        /\ freq_pass = BoolStr(frequency_passes(WithoutGenomesHemizygous(query), freq_seqvar))

\* A variant on chrM with 2 hemizygous carriers in gnomAD genomes passed a
\* query whose only threshold of gnomAD genomes is a hemizygous count of 1.
C22_Witness ==
    /\ FreqReturned
    /\ freq_pass = "true"
    /\ freq_seqvar.chrom = "chrM"
    /\ Pop.gnomad_genomes.enabled
    /\ Pop.gnomad_genomes.thresholds.hemizygous = Some(1)
    /\ ~Pop.gnomad_genomes.thresholds.frequency.some
    /\ freq_seqvar.gnomad_genomes.hemi = 2

\* The query with the source disabled and none of its thresholds set.
WithoutSource(q, src) == Disabled(WithoutThresholds(q, src), src)

\* C30. Source selection by contig: for a mitochondrial variant the result of
\* passes is the one with gnomAD exomes disabled, its thresholds unset and no
\* carrier in it, and for any other variant the one with HelixMtDb disabled,
\* its thresholds unset and no carrier in it; so the flag, the thresholds and
\* the counts of the source that is not consulted never change the result.
C30_SourceByContig ==
    FreqReturned =>
        LET src == IF IsMtDna(freq_seqvar) THEN "gnomad_exomes" ELSE "helixmtdb"
        IN  freq_pass = BoolStr(frequency_passes(WithoutSource(query, src),
                                                 WithoutCarriers(freq_seqvar, src)))

\* A variant on MT with 2 het. carriers in gnomAD exomes passed a query in
\* which gnomAD exomes is enabled with a heterozygous threshold of 1.
C30_Witness ==
    /\ FreqReturned
    /\ freq_pass = "true"
    /\ freq_seqvar.chrom = "MT"
    /\ Pop.gnomad_exomes.enabled
    /\ Pop.gnomad_exomes.thresholds.heterozygous = Some(1)
    /\ freq_seqvar.gnomad_exomes.het = 2

=============================================================================
